---- MODULE Spec2Model ----
(***************************************************************************)
(* RevGame core: byte-addressable Memory with permission regions, the     *)
(* patch undo/redo History, the instruction Executor for the x86 subset   *)
(* and the Debugger control layer (step / run / run_n / step_back /       *)
(* reset / patch), modelled from crates/revgame-core.                      *)
(***************************************************************************)
EXTENDS Integers, Sequences, FiniteSets, TLC

VARIABLES
    cpu,                    \* Debugger.cpu : CpuState
    memory,                 \* Debugger.memory : Memory {data, regions, enforce_permissions}
    state,                  \* Debugger.state : DebuggerState
    breakpoints,            \* Debugger.breakpoints : HashSet<u32>
    max_instructions,       \* Debugger.max_instructions
    instructions_executed,  \* Debugger.instructions_executed (per run)
    total_instructions,     \* Debugger.total_instructions (lifetime)
    history,                \* Debugger.history : VecDeque<HistoryEntry>
    patch_history,          \* Debugger.patch_history : History {undo_stack, redo_stack}
    initial_cpu,            \* Debugger.initial_cpu
    initial_memory,         \* Debugger.initial_memory : Vec<u8>
    pc,                     \* position of the caller: "idle", or "run" inside run()'s loop
    run_frame,              \* run_n()'s local original_limit while its run() is in progress,
                            \* and whether the run was called in state Halted
    ret,                    \* what the last completed call returned (and its arguments)
    prev,                   \* the call completed before that one
    shadow,                 \* pre-step CPU states of the successful steps not yet stepped back
    shadow_peak,            \* longest shadow since the trace was last empty
    calls,                  \* number of calls counted against a bound
    saved,                  \* what the last save_initial_state() captured
    overflow_checks         \* the build: TRUE when integer overflow panics (debug
                            \* profile), FALSE when it wraps (release profile)

vars == <<cpu, memory, state, breakpoints, max_instructions, instructions_executed,
          total_instructions, history, patch_history, initial_cpu, initial_memory,
          pc, run_frame, ret, prev, shadow, shadow_peak, calls, saved, overflow_checks>>

\* everything but memory, patch_history and the last calls
dbgvars_but_patches ==
    <<cpu, state, breakpoints, max_instructions, instructions_executed,
      total_instructions, history, initial_cpu, initial_memory,
      pc, run_frame, shadow, shadow_peak, saved, overflow_checks>>

(***************************************************************************)
(* Bounds of the model.                                                    *)
(***************************************************************************)
\* Memory::new(size): number of bytes of the buffer.
MemSize == 20
\* Debugger.max_history is 1000 in the source; scaled down so that eviction happens.
max_history == 2
\* History::new(100) in the source; scaled down so that eviction happens.
patch_max_history == 2
\* Cap on Debugger.total_instructions (u64 in the source).
MaxTotal == 3
\* Cap on the number of configuration calls (load, entry point, breakpoints,
\* ceiling) of a behaviour.
MaxSetup == 3

\* Cap on the number of patch, set_enforce_permissions and add_region calls of
\* a behaviour of the patch log.
MaxPatchCalls == 4

\* Cap on the calls made on a bare Memory, an access (read or write) counting
\* for two and a configuration call (enforcement, region) for one.
MaxMemOps == 6
\* Cap on the number of regions added to a Memory.
\* calls that set a register, set the flags or load code before the
\* instruction under test is stepped
MaxAluSetup == 4
MaxRegions == 2

Byte == 0..255

(***************************************************************************)
(* u32 values.  A u32 is kept as two 16-bit halves, so that every          *)
(* intermediate result of the 32-bit arithmetic stays a small integer.     *)
(***************************************************************************)
W(hi, lo) == [hi |-> hi, lo |-> lo]

\* the u32 of a natural number below 2^31
Word(n) == W(n \div (2^16), n % (2^16))

\* `address as usize`; an address of 2^30 or more is shown as 2^30, which is
\* beyond every buffer of the model
usize(w) == IF w.hi < 2^14 THEN w.hi * (2^16) + w.lo ELSE 2^30

\* usize values.  A usize is kept as an integer v: v >= 0 stands for v itself
\* and v < 0 for usize::MAX + 1 + v, so that -1 is usize::MAX.  The model keeps
\* |v| far below the machine range.
UsizeMax == 0 - 1

\* a + b on usize: the wrapped sum and whether the true sum exceeds usize::MAX
usize_add(a, b) ==
    [val |-> a + b,
     overflow |-> (a < 0 /\ b < 0) \/ ((a < 0) # (b < 0) /\ a + b >= 0)]

\* a > b on usize
usize_gt(a, b) == IF (a < 0) = (b < 0) THEN a > b ELSE a < 0

\* u32::overflowing_add: the wrapped sum and the carry
overflowing_add(a, b) ==
    LET lo == a.lo + b.lo
        hi == a.hi + b.hi + lo \div (2^16)
    IN [val |-> W(hi % (2^16), lo % (2^16)), carry |-> hi >= 2^16]

\* u32::wrapping_add
wrapping_add(a, b) == overflowing_add(a, b).val

\* a < b as unsigned 32-bit values
Lt32(a, b) == a.hi < b.hi \/ (a.hi = b.hi /\ a.lo < b.lo)

\* u32::overflowing_sub: the wrapped difference and the borrow
overflowing_sub(a, b) ==
    LET lo == a.lo - b.lo
        borrow == IF lo < 0 THEN 1 ELSE 0
        hi == a.hi - b.hi - borrow
    IN [val |-> W((hi + 2^16) % (2^16), (lo + 2^16) % (2^16)), carry |-> Lt32(a, b)]

\* u32::wrapping_sub
wrapping_sub(a, b) == overflowing_sub(a, b).val

Min(a, b) == IF a < b THEN a ELSE b
Max(a, b) == IF a > b THEN a ELSE b

\* Rust's slice a[from..from+n] of a 1-based sequence, 0-based offset `from`.
SubVec(s, from, n) == [i \in 1..n |-> s[from + i]]

(***************************************************************************)
(* Memory (emulator/memory.rs)                                             *)
(***************************************************************************)
rw == [read |-> TRUE, write |-> TRUE, execute |-> FALSE]
rx == [read |-> TRUE, write |-> FALSE, execute |-> TRUE]

\* Memory::new
MemoryNew(size) ==
    [data |-> [i \in 0..(size - 1) |-> 0],
     regions |-> <<>>,
     enforce_permissions |-> FALSE]

\* Memory::size
size(m) == Cardinality(DOMAIN m.data)

\* MemoryRegion::contains
contains(r, address) == address >= r.start /\ address < r.end

\* Memory::get_region: index of the first region (insertion order) containing
\* the address, 0 when there is none.
get_region(m, address) ==
    LET first(hits) == IF hits = {} THEN 0 ELSE CHOOSE i \in hits : \A j \in hits : i <= j
    IN first({i \in 1..Len(m.regions) : contains(m.regions[i], address)})

\* Memory::check_bounds
check_bounds(m, address, n) ==
    LET within(end) ==
            IF end.overflow /\ overflow_checks THEN "Panic"
            ELSE IF usize_gt(end.val, size(m)) THEN "OutOfBounds" ELSE "Ok"
    IN within(usize_add(address, n))

\* Memory::check_read
check_read(m, address) ==
    LET permitted(r) ==
            IF r # 0 /\ ~m.regions[r].permissions.read THEN "AccessViolation" ELSE "Ok"
    IN IF ~m.enforce_permissions THEN "Ok" ELSE permitted(get_region(m, address))

\* Memory::check_write
check_write(m, address) ==
    LET permitted(r) ==
            IF r # 0 /\ ~m.regions[r].permissions.write THEN "AccessViolation" ELSE "Ok"
    IN IF ~m.enforce_permissions THEN "Ok" ELSE permitted(get_region(m, address))

\* data[addr..addr + count].to_vec()
Slice(m, address, count) == [i \in 1..count |-> m.data[address + i - 1]]

\* data[addr..addr + bytes.len()].copy_from_slice(bytes)
CopyFromSlice(m, address, bytes) ==
    [m EXCEPT !.data = [i \in DOMAIN m.data |->
        IF i >= address /\ i < address + Len(bytes)
        THEN bytes[i - address + 1] ELSE m.data[i]]]

\* Memory::read_bytes
read_bytes(m, address, count) ==
    LET checked(bounds, access) ==
            IF bounds # "Ok" THEN [res |-> bounds, val |-> <<>>]
            ELSE IF access # "Ok" THEN [res |-> access, val |-> <<>>]
            \* data[addr..addr + count]: a wrapped end lies before the start
            ELSE IF usize_add(address, count).overflow
            THEN [res |-> "Panic", val |-> <<>>]
            ELSE [res |-> "Ok", val |-> Slice(m, address, count)]
    IN checked(check_bounds(m, address, count), check_read(m, address))

\* The mutation of write_bytes that copies one byte too few.
write_bytes_short(m, address, bytes) ==
    LET checked(bounds, access) ==
            IF bounds # "Ok" THEN [res |-> bounds, mem |-> m]
            ELSE IF access # "Ok" THEN [res |-> access, mem |-> m]
            ELSE [res |-> "Ok", mem |-> CopyFromSlice(m, address, SubVec(bytes, 0, Len(bytes) - Min(1, Len(bytes))))]
    IN checked(check_bounds(m, address, Len(bytes)), check_write(m, address))

\* Memory::write_bytes
write_bytes(m, address, bytes) ==
    LET checked(bounds, access) ==
            IF bounds # "Ok" THEN [res |-> bounds, mem |-> m]
            ELSE IF access # "Ok" THEN [res |-> access, mem |-> m]
            ELSE [res |-> "Ok", mem |-> CopyFromSlice(m, address, bytes)]
    IN checked(check_bounds(m, address, Len(bytes)), check_write(m, address))

\* u32::to_le_bytes
to_le_bytes(v) == <<v.lo % 256, v.lo \div 256, v.hi % 256, v.hi \div 256>>

\* u32::from_le_bytes
from_le_bytes(b) == W(b[3] + 256 * b[4], b[1] + 256 * b[2])

\* Memory::read_u8
read_u8(m, address) ==
    LET checked(bounds, access) ==
            IF bounds # "Ok" THEN [res |-> bounds, val |-> 0]
            ELSE IF access # "Ok" THEN [res |-> access, val |-> 0]
            ELSE [res |-> "Ok", val |-> m.data[address]]
    IN checked(check_bounds(m, address, 1), check_read(m, address))

\* Memory::read_u16
read_u16(m, address) ==
    LET checked(bounds, access) ==
            IF bounds # "Ok" THEN [res |-> bounds, val |-> 0]
            ELSE IF access # "Ok" THEN [res |-> access, val |-> 0]
            ELSE [res |-> "Ok", val |-> m.data[address] + 256 * m.data[address + 1]]
    IN checked(check_bounds(m, address, 2), check_read(m, address))

\* Memory::read_u32
read_u32(m, address) ==
    LET checked(bounds, access) ==
            IF bounds # "Ok" THEN [res |-> bounds, val |-> Word(0)]
            ELSE IF access # "Ok" THEN [res |-> access, val |-> Word(0)]
            ELSE [res |-> "Ok", val |-> from_le_bytes(Slice(m, address, 4))]
    IN checked(check_bounds(m, address, 4), check_read(m, address))

\* Memory::write_u8
write_u8(m, address, value) ==
    LET checked(bounds, access) ==
            IF bounds # "Ok" THEN [res |-> bounds, mem |-> m]
            ELSE IF access # "Ok" THEN [res |-> access, mem |-> m]
            ELSE [res |-> "Ok", mem |-> CopyFromSlice(m, address, <<value>>)]
    IN checked(check_bounds(m, address, 1), check_write(m, address))

\* Memory::write_u16
write_u16(m, address, value) ==
    LET checked(bounds, access) ==
            IF bounds # "Ok" THEN [res |-> bounds, mem |-> m]
            ELSE IF access # "Ok" THEN [res |-> access, mem |-> m]
            ELSE [res |-> "Ok", mem |-> CopyFromSlice(m, address, <<value % 256, value \div 256>>)]
    IN checked(check_bounds(m, address, 2), check_write(m, address))

\* Memory::write_u32
write_u32(m, address, value) ==
    LET checked(bounds, access) ==
            IF bounds # "Ok" THEN [res |-> bounds, mem |-> m]
            ELSE IF access # "Ok" THEN [res |-> access, mem |-> m]
            ELSE [res |-> "Ok", mem |-> CopyFromSlice(m, address, to_le_bytes(value))]
    IN checked(check_bounds(m, address, 4), check_write(m, address))

\* The mutation of load that checks the write permission, as write_bytes does.
load_checks_write(m, address, bytes) == write_bytes(m, address, bytes)

\* Memory::load
load(m, address, bytes) ==
    LET checked(bounds) ==
            IF bounds # "Ok" THEN [res |-> bounds, mem |-> m]
            ELSE [res |-> "Ok", mem |-> CopyFromSlice(m, address, bytes)]
    IN checked(check_bounds(m, address, Len(bytes)))

\* Memory::raw().to_vec()
raw(m) == m.data

(***************************************************************************)
(* Patch history (debugger/history.rs)                                     *)
(***************************************************************************)
\* MemoryPatch::new
MemoryPatch(address, old_bytes, new_bytes) ==
    [address |-> address, old_bytes |-> old_bytes, new_bytes |-> new_bytes]

\* The mutation of inverse that leaves the two byte sequences in place.
inverse_unswapped(p) ==
    [address |-> p.address, old_bytes |-> p.old_bytes, new_bytes |-> p.new_bytes]

\* MemoryPatch::inverse
inverse(p) ==
    [address |-> p.address, old_bytes |-> p.new_bytes, new_bytes |-> p.old_bytes]

\* History::new
HistoryNew == [undo_stack |-> <<>>, redo_stack |-> <<>>]

Last(s) == s[Len(s)]
Front(s) == SubSeq(s, 1, Len(s) - 1)

\* The mutation of record that keeps the redo stack.
record_keeping_redo(h, patch) ==
    LET pushed == Append(h.undo_stack, patch)
    IN [undo_stack |-> IF Len(pushed) > patch_max_history THEN Tail(pushed) ELSE pushed,
        redo_stack |-> h.redo_stack]

\* The mutation of record that never evicts.
record_unbounded(h, patch) ==
    [undo_stack |-> Append(h.undo_stack, patch), redo_stack |-> <<>>]

\* History::record
record(h, patch) ==
    LET pushed == Append(h.undo_stack, patch)
    IN [undo_stack |-> IF Len(pushed) > patch_max_history THEN Tail(pushed) ELSE pushed,
        redo_stack |-> <<>>]

\* The mutation of undo that takes the oldest patch of the undo stack.
undo_oldest(h) ==
    IF h.undo_stack # <<>>
    THEN [some |-> TRUE,
          patch |-> inverse(h.undo_stack[1]),
          h |-> [undo_stack |-> Tail(h.undo_stack),
                 redo_stack |-> Append(h.redo_stack, h.undo_stack[1])]]
    ELSE [some |-> FALSE, patch |-> MemoryPatch(0, <<>>, <<>>), h |-> h]

\* History::undo: Some(inverse) and the new stacks, or None.
undo(h) ==
    IF h.undo_stack # <<>>
    THEN LET patch == Last(h.undo_stack)
         IN [some |-> TRUE,
             patch |-> inverse(patch),
             h |-> [undo_stack |-> Front(h.undo_stack),
                    redo_stack |-> Append(h.redo_stack, patch)]]
    ELSE [some |-> FALSE, patch |-> MemoryPatch(0, <<>>, <<>>), h |-> h]

\* History::redo: Some(forward) and the new stacks, or None.
redo(h) ==
    IF h.redo_stack # <<>>
    THEN LET patch == Last(h.redo_stack)
         IN [some |-> TRUE,
             patch |-> patch,
             h |-> [undo_stack |-> Append(h.undo_stack, patch),
                    redo_stack |-> Front(h.redo_stack)]]
    ELSE [some |-> FALSE, patch |-> MemoryPatch(0, <<>>, <<>>), h |-> h]

\* The mutation of clear that leaves the redo stack.
clear_undo_only(h) == [undo_stack |-> <<>>, redo_stack |-> h.redo_stack]

\* History::clear
clear(h) == [undo_stack |-> <<>>, redo_stack |-> <<>>]

(***************************************************************************)
(* CPU state and flags (emulator/cpu.rs, emulator/flags.rs)                *)
(***************************************************************************)
\* Eflags::default
EflagsDefault ==
    [cf |-> FALSE, zf |-> FALSE, sf |-> FALSE, of |-> FALSE,
     pf |-> FALSE, af |-> FALSE, df |-> FALSE]

\* Registers::default
RegistersDefault ==
    [eax |-> Word(0), ebx |-> Word(0), ecx |-> Word(0), edx |-> Word(0),
     esi |-> Word(0), edi |-> Word(0), ebp |-> Word(0), esp |-> Word(0)]

\* CpuState::default
CpuDefault ==
    [regs |-> RegistersDefault, eip |-> Word(0), eflags |-> EflagsDefault,
     halted |-> FALSE, fault |-> "None"]

\* CpuState::get_register
get_register(c, reg) == IF reg = "eip" THEN c.eip ELSE c.regs[reg]

\* CpuState::set_register
set_register(c, reg, value) ==
    IF reg = "eip" THEN [c EXCEPT !.eip = value] ELSE [c EXCEPT !.regs[reg] = value]

\* bit i of the u32 x
Bit(x, i) == IF i < 16 THEN (x.lo \div (2^i)) % 2 ELSE (x.hi \div (2^(i - 16))) % 2

\* (x as i32) < 0
Neg32(x) == x.hi >= 2^15

\* the u32 whose bit i is b[i], for b a function on 0..31
FromBits(b) ==
    LET half(k) == b[k] + 2 * b[k + 1] + 4 * b[k + 2] + 8 * b[k + 3]
                   + 16 * b[k + 4] + 32 * b[k + 5] + 64 * b[k + 6] + 128 * b[k + 7]
                   + 256 * b[k + 8] + 512 * b[k + 9] + 1024 * b[k + 10] + 2048 * b[k + 11]
                   + 4096 * b[k + 12] + 8192 * b[k + 13] + 16384 * b[k + 14] + 32768 * b[k + 15]
    IN W(half(16), half(0))

\* Eflags::compute_parity: even number of 1 bits in the low byte
compute_parity(b) ==
    LET bit(i) == (b \div (2^i)) % 2
    IN (bit(0) + bit(1) + bit(2) + bit(3) + bit(4) + bit(5) + bit(6) + bit(7)) % 2 = 0

\* update_arithmetic with the overflow flag of the addition form in both forms
update_arithmetic_addform(f, result, operand1, operand2, is_sub) ==
    LET sign1 == Neg32(operand1)
        sign2 == Neg32(operand2)
        sign_result == Neg32(result)
    IN [f EXCEPT
          !.zf = (result = Word(0)),
          !.sf = Neg32(result),
          !.pf = compute_parity(result.lo % 256),
          !.cf = IF is_sub THEN overflowing_sub(operand1, operand2).carry
                           ELSE overflowing_add(operand1, operand2).carry,
          !.of = (sign1 = sign2) /\ (sign_result # sign1),
          !.af = ((Bit(operand1, 4) + Bit(operand2, 4) + Bit(result, 4)) % 2 = 1)]

\* Eflags::update_arithmetic
update_arithmetic(f, result, operand1, operand2, is_sub) ==
    LET sign1 == Neg32(operand1)
        sign2 == Neg32(operand2)
        sign_result == Neg32(result)
    IN [f EXCEPT
          !.zf = (result = Word(0)),
          !.sf = Neg32(result),
          !.pf = compute_parity(result.lo % 256),
          !.cf = IF is_sub THEN overflowing_sub(operand1, operand2).carry
                           ELSE overflowing_add(operand1, operand2).carry,
          !.of = IF is_sub THEN (sign1 # sign2) /\ (sign_result # sign1)
                           ELSE (sign1 = sign2) /\ (sign_result # sign1),
          !.af = ((Bit(operand1, 4) + Bit(operand2, 4) + Bit(result, 4)) % 2 = 1)]

\* update_logical that leaves the overflow flag as it was
update_logical_keeps_of(f, result) ==
    [f EXCEPT !.zf = (result = Word(0)), !.sf = Neg32(result),
              !.pf = compute_parity(result.lo % 256),
              !.cf = FALSE, !.af = FALSE]

\* Eflags::update_logical
update_logical(f, result) ==
    [f EXCEPT !.zf = (result = Word(0)), !.sf = Neg32(result),
              !.pf = compute_parity(result.lo % 256),
              !.cf = FALSE, !.of = FALSE, !.af = FALSE]

\* update_inc that sets the carry as an ADD of 1 would
update_inc_carry(f, result, original) ==
    [f EXCEPT !.zf = (result = Word(0)), !.sf = Neg32(result),
              !.pf = compute_parity(result.lo % 256),
              !.of = (original = W(2^15 - 1, 2^16 - 1)),
              !.af = (result.lo % 16 = 0),
              !.cf = (result = Word(0))]

\* Eflags::update_inc
update_inc(f, result, original) ==
    [f EXCEPT !.zf = (result = Word(0)), !.sf = Neg32(result),
              !.pf = compute_parity(result.lo % 256),
              !.of = (original = W(2^15 - 1, 2^16 - 1)),
              !.af = (result.lo % 16 = 0)]

\* Eflags::update_dec
update_dec(f, result, original) ==
    [f EXCEPT !.zf = (result = Word(0)), !.sf = Neg32(result),
              !.pf = compute_parity(result.lo % 256),
              !.of = (original = W(2^15, 0)),
              !.af = (original.lo % 16 = 0)]


(***************************************************************************)
(* Decoder (iced_x86, called from Executor::execute_one and                *)
(* Disassembler::disassemble).  The table covers the encodings listed in   *)
(* Decode; a byte window outside the table has modelled = FALSE and the    *)
(* model does not execute it.                                              *)
(***************************************************************************)
Reg32 == <<"EAX", "ECX", "EDX", "EBX", "ESP", "EBP", "ESI", "EDI">>
Reg8 == <<"AL", "CL", "DL", "BL", "AH", "CH", "DH", "BH">>

\* A decoded iced_x86::Instruction, as far as the executor reads it.
Instr(mnemonic, len, kinds, regs, imm, base, disp, target) ==
    [valid |-> TRUE, modelled |-> TRUE, mnemonic |-> mnemonic, len |-> len,
     op_kind |-> kinds, op_register |-> regs, immediate |-> imm,
     memory_base |-> base, memory_index |-> "None", memory_index_scale |-> 1,
     memory_displacement |-> disp, near_branch |-> target]

InvalidInstr ==
    [Instr("INVALID", 0, <<>>, <<>>, Word(0), "None", Word(0), Word(0)) EXCEPT !.valid = FALSE]
UnmodelledInstr ==
    [Instr("?", 0, <<>>, <<>>, Word(0), "None", Word(0), Word(0)) EXCEPT !.modelled = FALSE]

\* sign extension of an 8-bit value to 32 bits
Sext8(b) == IF b >= 128 THEN W(2^16 - 1, 2^16 - 256 + b) ELSE Word(b)

\* The ModRM byte b[2] of a 32-bit-addressing instruction (SIB forms are outside
\* the table): extra is the number of bytes after the opcode byte.
ModRM(b) ==
    LET fields(mod, reg, rm, le32) ==
            IF mod = 3
            THEN [sib |-> FALSE, reg |-> reg, is_reg |-> TRUE, rm |-> rm, base |-> "None", disp |-> Word(0), extra |-> 1]
            ELSE IF rm = 4
            THEN [sib |-> TRUE, reg |-> reg, is_reg |-> FALSE, rm |-> rm, base |-> "None", disp |-> Word(0), extra |-> 0]
            ELSE IF mod = 0 /\ rm = 5
            THEN [sib |-> FALSE, reg |-> reg, is_reg |-> FALSE, rm |-> rm, base |-> "None", disp |-> le32, extra |-> 5]
            ELSE IF mod = 0
            THEN [sib |-> FALSE, reg |-> reg, is_reg |-> FALSE, rm |-> rm, base |-> Reg32[rm + 1], disp |-> Word(0), extra |-> 1]
            ELSE IF mod = 1
            THEN [sib |-> FALSE, reg |-> reg, is_reg |-> FALSE, rm |-> rm, base |-> Reg32[rm + 1], disp |-> Sext8(b[3]), extra |-> 2]
            ELSE [sib |-> FALSE, reg |-> reg, is_reg |-> FALSE, rm |-> rm, base |-> Reg32[rm + 1], disp |-> le32, extra |-> 5]
    IN fields(b[2] \div 64, (b[2] \div 8) % 8, b[2] % 8, from_le_bytes(SubVec(b, 2, 4)))

\* `op r/m, r` with the decoded ModRM byte x and operand registers drawn from
\* `bank` (Reg8 or Reg32)
ModRMInstr(mnemonic, x, bank) ==
    IF x.sib THEN UnmodelledInstr
    ELSE IF x.is_reg
    THEN Instr(mnemonic, 1 + x.extra, <<"Register", "Register">>,
               <<bank[x.rm + 1], bank[x.reg + 1]>>, Word(0), "None", Word(0), Word(0))
    ELSE Instr(mnemonic, 1 + x.extra, <<"Memory", "Register">>,
               <<"None", bank[x.reg + 1]>>, Word(0), x.base, x.disp, Word(0))

\* Decoder::decode on the byte window b (15 bytes) fetched at address ip
Decode(b, ip) ==
    LET op == b[1]
        \* IMUL r32, r/m32 with `tail` more bytes after the ModRM byte x and its
        \* displacement: none, or the immediate of kind `imm`
        imul(x, len, tail, imm) ==
            IF x.sib THEN UnmodelledInstr
            ELSE Instr("Imul", len + x.extra,
                       <<"Register", IF x.is_reg THEN "Register" ELSE "Memory">> \o imm,
                       <<Reg32[x.reg + 1], IF x.is_reg THEN Reg32[x.rm + 1] ELSE "None">>
                           \o [i \in 1..Len(imm) |-> "None"],
                       CASE imm = <<"Immediate32">> -> from_le_bytes(SubVec(tail, x.extra, 4))
                         [] imm = <<"Immediate8to32">> -> Sext8(tail[1 + x.extra])
                         [] OTHER -> Word(0),
                       x.base, x.disp, Word(0))
        \* group F7 with the ModRM byte x
        group3(x) ==
            IF x.sib THEN UnmodelledInstr
            ELSE Instr(IF x.reg = 4 THEN "Mul" ELSE "Imul", 1 + x.extra,
                       <<IF x.is_reg THEN "Register" ELSE "Memory">>,
                       <<IF x.is_reg THEN Reg32[x.rm + 1] ELSE "None">>,
                       Word(0), x.base, x.disp, Word(0))
    IN CASE op \in {0, 1, 9, 33, 41, 49, 57, 133} ->
              \* 00 /r  ADD r/m8, r8;   01 /r  ADD r/m32, r32;  09 /r  OR r/m32, r32
              \* 21 /r  AND r/m32, r32; 29 /r  SUB r/m32, r32;  31 /r  XOR r/m32, r32
              \* 39 /r  CMP r/m32, r32; 85 /r  TEST r/m32, r32
              ModRMInstr(CASE op \in {0, 1} -> "Add" [] op = 9 -> "Or" [] op = 33 -> "And"
                           [] op = 41 -> "Sub" [] op = 49 -> "Xor" [] op = 57 -> "Cmp"
                           [] OTHER -> "Test",
                         ModRM(b), IF op = 0 THEN Reg8 ELSE Reg32)
         [] op \in 64..71 ->                                           \* 40+r   INC r32
              Instr("Inc", 1, <<"Register">>, <<Reg32[op - 63]>>, Word(0), "None", Word(0), Word(0))
         [] op \in 72..79 ->                                           \* 48+r   DEC r32
              Instr("Dec", 1, <<"Register">>, <<Reg32[op - 71]>>, Word(0), "None", Word(0), Word(0))
         [] op \in 80..87 ->                                           \* 50+r   PUSH r32
              Instr("Push", 1, <<"Register">>, <<Reg32[op - 79]>>, Word(0), "None", Word(0), Word(0))
         [] op \in 88..95 ->                                           \* 58+r   POP r32
              Instr("Pop", 1, <<"Register">>, <<Reg32[op - 87]>>, Word(0), "None", Word(0), Word(0))
         [] op = 15 /\ b[2] = 175 -> imul(ModRM(Tail(b)), 2, Tail(b), <<>>)  \* 0F AF /r  IMUL r32, r/m32
         \* 69 /r id  IMUL r32, r/m32, imm32
         [] op = 105 -> imul(ModRM(b), 5, Tail(b), <<"Immediate32">>)
         \* 6B /r ib  IMUL r32, r/m32, imm8
         [] op = 107 -> imul(ModRM(b), 2, Tail(b), <<"Immediate8to32">>)
         [] op \in 112..127 ->                                         \* 70+cc cb  Jcc rel8
              Instr(<<"Jo", "Jno", "Jb", "Jae", "Je", "Jne", "Jbe", "Ja",
                      "Js", "Jns", "Jp", "Jnp", "Jl", "Jge", "Jle", "Jg">>[op - 111],
                    2, <<"NearBranch32">>, <<"None">>, Word(0), "None", Word(0),
                    wrapping_add(wrapping_add(ip, Word(2)), Sext8(b[2])))
         [] op = 144 -> Instr("Nop", 1, <<>>, <<>>, Word(0), "None", Word(0), Word(0))   \* 90     NOP
         [] op \in 184..191 ->                                         \* B8+r   MOV r32, imm32
              Instr("Mov", 5, <<"Register", "Immediate32">>, <<Reg32[op - 183], "None">>,
                    from_le_bytes(SubVec(b, 1, 4)), "None", Word(0), Word(0))
         [] op = 194 ->                                                \* C2 iw  RET imm16
              Instr("Ret", 3, <<"Immediate16">>, <<"None">>, Word(b[2] + 256 * b[3]), "None",
                    Word(0), Word(0))
         [] op = 195 -> Instr("Ret", 1, <<>>, <<>>, Word(0), "None", Word(0), Word(0))   \* C3     RET
         [] op = 204 -> Instr("Int3", 1, <<>>, <<>>, Word(0), "None", Word(0), Word(0))  \* CC     INT3
         [] op = 205 ->                                                \* CD ib  INT imm8
              Instr("Int", 2, <<"Immediate8">>, <<"None">>, Word(b[2]), "None", Word(0), Word(0))
         [] op = 211 /\ b[2] \div 64 = 3 /\ (b[2] \div 8) % 8 \in {4, 5, 7} ->
              \* D3 /4  SHL r32, CL;  D3 /5  SHR r32, CL;  D3 /7  SAR r32, CL
              Instr(CASE (b[2] \div 8) % 8 = 4 -> "Shl" [] (b[2] \div 8) % 8 = 5 -> "Shr"
                      [] OTHER -> "Sar",
                    2, <<"Register", "Register">>, <<Reg32[(b[2] % 8) + 1], "CL">>,
                    Word(0), "None", Word(0), Word(0))
         [] op = 232 ->                                                \* E8 cd  CALL rel32
              Instr("Call", 5, <<"NearBranch32">>, <<"None">>, Word(0), "None", Word(0),
                    wrapping_add(wrapping_add(ip, Word(5)), from_le_bytes(SubVec(b, 1, 4))))
         [] op = 235 ->                                                \* EB cb  JMP rel8
              Instr("Jmp", 2, <<"NearBranch32">>, <<"None">>, Word(0), "None", Word(0),
                    wrapping_add(wrapping_add(ip, Word(2)), Sext8(b[2])))
         [] op = 244 -> Instr("Hlt", 1, <<>>, <<>>, Word(0), "None", Word(0), Word(0))   \* F4     HLT
         [] op = 247 /\ (b[2] \div 8) % 8 \in {4, 5} -> group3(ModRM(b))   \* F7 /4  MUL r/m32;  F7 /5  IMUL r/m32
         [] op = 253 -> Instr("Std", 1, <<>>, <<>>, Word(0), "None", Word(0), Word(0))   \* FD     STD
         [] op = 255 /\ b[2] \div 64 = 3 /\ (b[2] \div 8) % 8 = 2 ->     \* FF /2  CALL r32
              Instr("Call", 2, <<"Register">>, <<Reg32[(b[2] % 8) + 1]>>, Word(0), "None",
                    Word(0), Word(0))
         [] op = 255 /\ (b[2] \div 8) % 8 = 7 -> InvalidInstr          \* FF /7  (undefined)
         [] OTHER -> UnmodelledInstr

(***************************************************************************)
(* Executor (emulator/instructions.rs)                                     *)
(***************************************************************************)
\* Executor::iced_to_register
iced_to_register(reg) ==
    CASE reg \in {"EAX", "AX", "AL", "AH"} -> "eax"
      [] reg \in {"EBX", "BX", "BL", "BH"} -> "ebx"
      [] reg \in {"ECX", "CX", "CL", "CH"} -> "ecx"
      [] reg \in {"EDX", "DX", "DL", "DH"} -> "edx"
      [] reg \in {"ESI", "SI"} -> "esi"
      [] reg \in {"EDI", "DI"} -> "edi"
      [] reg \in {"EBP", "BP"} -> "ebp"
      [] reg \in {"ESP", "SP"} -> "esp"
      [] OTHER -> "none"

\* index_val.wrapping_mul(scale), scale in {1, 2, 4, 8}
wrapping_mul_scale(v, scale) ==
    LET lo == v.lo * scale
        hi == v.hi * scale + lo \div (2^16)
    IN W(hi % (2^16), lo % (2^16))

\* Executor::calculate_memory_address
calculate_memory_address(c, instr) ==
    LET add_base(a0, base) ==
            IF instr.memory_base # "None" /\ base # "none"
            THEN wrapping_add(a0, get_register(c, base)) ELSE a0
        add_index(a1, index) ==
            IF instr.memory_index # "None" /\ index # "none"
            THEN wrapping_add(a1, wrapping_mul_scale(get_register(c, index),
                                                     instr.memory_index_scale))
            ELSE a1
    IN add_index(add_base(instr.memory_displacement, iced_to_register(instr.memory_base)),
                 iced_to_register(instr.memory_index))

\* Executor::read_operand (op_idx counted from 0 as in the source)
read_operand(c, m, instr, op_idx) ==
    LET register(reg) ==
            IF reg # "none" THEN [res |-> "Ok", val |-> get_register(c, reg)]
            ELSE [res |-> "InvalidOperand", val |-> Word(0)]
        of_kind(kind) ==
            CASE kind = "Register" -> register(iced_to_register(instr.op_register[op_idx + 1]))
              [] kind \in {"Immediate8", "Immediate16", "Immediate32"} ->
                   [res |-> "Ok", val |-> instr.immediate]
              [] kind = "Immediate8to32" -> [res |-> "Ok", val |-> instr.immediate]
              [] kind = "Memory" -> read_u32(m, usize(calculate_memory_address(c, instr)))
              [] OTHER -> [res |-> "InvalidOperand", val |-> Word(0)]
    IN of_kind(instr.op_kind[op_idx + 1])

\* Executor::write_operand
write_operand(c, m, instr, op_idx, value) ==
    LET register(reg) ==
            IF reg # "none"
            THEN [res |-> "Ok", mem |-> m, cpu |-> set_register(c, reg, value)]
            ELSE [res |-> "InvalidOperand", cpu |-> c, mem |-> m]
        written(w) == [res |-> w.res, cpu |-> c, mem |-> w.mem]
        of_kind(kind) ==
            CASE kind = "Register" -> register(iced_to_register(instr.op_register[op_idx + 1]))
              [] kind = "Memory" ->
                   written(write_u32(m, usize(calculate_memory_address(c, instr)), value))
              [] OTHER -> [res |-> "InvalidOperand", cpu |-> c, mem |-> m]
    IN of_kind(instr.op_kind[op_idx + 1])

\* Result<ExecutionResult, EmulatorError> together with the cpu and memory the
\* call leaves behind (also when it fails).
Continue(next_eip, c, m) ==
    [res |-> "Ok", kind |-> "Continue", next_eip |-> next_eip, vector |-> 0, cpu |-> c, mem |-> m]
Outcome(kind, vector, c, m) ==
    [res |-> "Ok", kind |-> kind, next_eip |-> Word(0), vector |-> vector, cpu |-> c, mem |-> m]
Failure(err, c, m) ==
    [res |-> err, kind |-> "None", next_eip |-> Word(0), vector |-> 0, cpu |-> c, mem |-> m]

\* Executor::exec_mov
exec_mov(c, m, instr, next_eip) ==
    LET written(w) == IF w.res # "Ok" THEN Failure(w.res, w.cpu, w.mem)
                      ELSE Continue(next_eip, w.cpu, w.mem)
        read(value) ==
            IF value.res # "Ok" THEN Failure(value.res, c, m)
            ELSE written(write_operand(c, m, instr, 0, value.val))
    IN read(read_operand(c, m, instr, 1))

\* Executor::exec_push
exec_push(c, m, instr, next_eip) ==
    LET written(c1, w) == IF w.res # "Ok" THEN Failure(w.res, c1, m)
                          ELSE Continue(next_eip, c1, w.mem)
        decremented(c1, value) == written(c1, write_u32(m, usize(c1.regs.esp), value))
        read(value) ==
            IF value.res # "Ok" THEN Failure(value.res, c, m)
            ELSE decremented([c EXCEPT !.regs.esp = wrapping_sub(c.regs.esp, Word(4))],
                             value.val)
    IN read(read_operand(c, m, instr, 0))

\* The mutation of exec_pop that increments ESP before it reads the dword.
exec_pop_increments_first(c, m, instr, next_eip) ==
    LET written(w) == IF w.res # "Ok" THEN Failure(w.res, w.cpu, w.mem)
                      ELSE Continue(next_eip, w.cpu, w.mem)
        read(c1, value) ==
            IF value.res # "Ok" THEN Failure(value.res, c1, m)
            ELSE written(write_operand(c1, m, instr, 0, value.val))
        incremented(c1) == read(c1, read_u32(m, usize(c1.regs.esp)))
    IN incremented([c EXCEPT !.regs.esp = wrapping_add(c.regs.esp, Word(4))])

\* Executor::exec_pop
exec_pop(c, m, instr, next_eip) ==
    LET written(w) == IF w.res # "Ok" THEN Failure(w.res, w.cpu, w.mem)
                      ELSE Continue(next_eip, w.cpu, w.mem)
        read(value) ==
            IF value.res # "Ok" THEN Failure(value.res, c, m)
            ELSE written(write_operand(
                     [c EXCEPT !.regs.esp = wrapping_add(c.regs.esp, Word(4))],
                     m, instr, 0, value.val))
    IN read(read_u32(m, usize(c.regs.esp)))

\* Executor::exec_add
exec_add(c, m, instr, next_eip) ==
    LET written(w) == IF w.res # "Ok" THEN Failure(w.res, w.cpu, w.mem)
                      ELSE Continue(next_eip, w.cpu, w.mem)
        computed(op1, op2, result) ==
            written(write_operand(
                [c EXCEPT !.eflags = update_arithmetic(c.eflags, result, op1, op2, FALSE)],
                m, instr, 0, result))
        operands(op1, op2) ==
            IF op1.res # "Ok" THEN Failure(op1.res, c, m)
            ELSE IF op2.res # "Ok" THEN Failure(op2.res, c, m)
            ELSE computed(op1.val, op2.val, wrapping_add(op1.val, op2.val))
    IN operands(read_operand(c, m, instr, 0), read_operand(c, m, instr, 1))

\* Executor::exec_sub
exec_sub(c, m, instr, next_eip) ==
    LET written(w) == IF w.res # "Ok" THEN Failure(w.res, w.cpu, w.mem)
                      ELSE Continue(next_eip, w.cpu, w.mem)
        computed(op1, op2, result) ==
            written(write_operand(
                [c EXCEPT !.eflags = update_arithmetic(c.eflags, result, op1, op2, TRUE)],
                m, instr, 0, result))
        operands(op1, op2) ==
            IF op1.res # "Ok" THEN Failure(op1.res, c, m)
            ELSE IF op2.res # "Ok" THEN Failure(op2.res, c, m)
            ELSE computed(op1.val, op2.val, wrapping_sub(op1.val, op2.val))
    IN operands(read_operand(c, m, instr, 0), read_operand(c, m, instr, 1))

\* The mutation of exec_cmp that stores the difference, as SUB does.
exec_cmp_stores(c, m, instr, next_eip) == exec_sub(c, m, instr, next_eip)

\* Executor::exec_cmp
exec_cmp(c, m, instr, next_eip) ==
    LET computed(op1, op2, result) ==
            Continue(next_eip,
                     [c EXCEPT !.eflags = update_arithmetic(c.eflags, result, op1, op2, TRUE)],
                     m)
        operands(op1, op2) ==
            IF op1.res # "Ok" THEN Failure(op1.res, c, m)
            ELSE IF op2.res # "Ok" THEN Failure(op2.res, c, m)
            ELSE computed(op1.val, op2.val, wrapping_sub(op1.val, op2.val))
    IN operands(read_operand(c, m, instr, 0), read_operand(c, m, instr, 1))

\* Executor::exec_and, exec_or and exec_xor: the same body around
\* result = op1 & op2, op1 | op2, op1 ^ op2
exec_logic(c, m, instr, next_eip) ==
    LET written(w) == IF w.res # "Ok" THEN Failure(w.res, w.cpu, w.mem)
                      ELSE Continue(next_eip, w.cpu, w.mem)
        computed(result) ==
            written(write_operand([c EXCEPT !.eflags = update_logical(c.eflags, result)],
                                  m, instr, 0, result))
        bitwise(x, y) ==
            FromBits([i \in 0..31 |->
                         CASE instr.mnemonic = "And" -> Bit(x, i) * Bit(y, i)
                           [] instr.mnemonic = "Or" -> Max(Bit(x, i), Bit(y, i))
                           [] OTHER -> (Bit(x, i) + Bit(y, i)) % 2])
        operands(op1, op2) ==
            IF op1.res # "Ok" THEN Failure(op1.res, c, m)
            ELSE IF op2.res # "Ok" THEN Failure(op2.res, c, m)
            ELSE computed(bitwise(op1.val, op2.val))
    IN operands(read_operand(c, m, instr, 0), read_operand(c, m, instr, 1))

\* Executor::exec_test
exec_test(c, m, instr, next_eip) ==
    LET computed(result) ==
            Continue(next_eip, [c EXCEPT !.eflags = update_logical(c.eflags, result)], m)
        operands(op1, op2) ==
            IF op1.res # "Ok" THEN Failure(op1.res, c, m)
            ELSE IF op2.res # "Ok" THEN Failure(op2.res, c, m)
            ELSE computed(FromBits([i \in 0..31 |-> Bit(op1.val, i) * Bit(op2.val, i)]))
    IN operands(read_operand(c, m, instr, 0), read_operand(c, m, instr, 1))

\* Executor::exec_shl, exec_shr and exec_sar: the same body around the shift,
\* the carry and the overflow flag of a shift by one.  The assignments to the
\* flags are in the order of the source: cf, then update_logical, then of.
exec_shift(c, m, instr, next_eip) ==
    LET written(w) == IF w.res # "Ok" THEN Failure(w.res, w.cpu, w.mem)
                      ELSE Continue(next_eip, w.cpu, w.mem)
        \* `if count == 1 { cpu.eflags.of = ... }` on the flags f left by update_logical
        by_one(value, count, result, f) ==
            IF count # 1 THEN f
            ELSE CASE instr.mnemonic = "Shl" ->
                        [f EXCEPT !.of = (Bit(result, 31) # (IF f.cf THEN 1 ELSE 0))]
                   [] instr.mnemonic = "Shr" -> [f EXCEPT !.of = Neg32(value)]
                   [] OTHER -> [f EXCEPT !.of = FALSE]
        \* cpu.eflags.cf = the bit shifted out; update_logical(result)
        flagged(value, count, result) ==
            by_one(value, count, result,
                   update_logical(
                       [c.eflags EXCEPT !.cf = IF instr.mnemonic = "Shl"
                                               THEN Bit(value, 32 - count) = 1
                                               ELSE Bit(value, count - 1) = 1],
                       result))
        computed(value, count, result) ==
            written(write_operand([c EXCEPT !.eflags = flagged(value, count, result)],
                                  m, instr, 0, result))
        \* value << count, value >> count, (value as i32) >> count
        shifted(value, count) ==
            IF count = 0 THEN Continue(next_eip, c, m)
            ELSE computed(value, count,
                          FromBits([i \in 0..31 |->
                              CASE instr.mnemonic = "Shl" ->
                                     IF i >= count THEN Bit(value, i - count) ELSE 0
                                [] instr.mnemonic = "Shr" ->
                                     IF i + count <= 31 THEN Bit(value, i + count) ELSE 0
                                [] OTHER -> Bit(value, Min(i + count, 31))]))
        operands(value, op2) ==
            IF value.res # "Ok" THEN Failure(value.res, c, m)
            ELSE IF op2.res # "Ok" THEN Failure(op2.res, c, m)
            ELSE shifted(value.val, op2.val.lo % 32)
    IN operands(read_operand(c, m, instr, 0), read_operand(c, m, instr, 1))

\* Executor::exec_inc
exec_inc(c, m, instr, next_eip) ==
    LET written(w) == IF w.res # "Ok" THEN Failure(w.res, w.cpu, w.mem)
                      ELSE Continue(next_eip, w.cpu, w.mem)
        computed(original, result) ==
            written(write_operand([c EXCEPT !.eflags = update_inc(c.eflags, result, original)],
                                  m, instr, 0, result))
        read(value) ==
            IF value.res # "Ok" THEN Failure(value.res, c, m)
            ELSE computed(value.val, wrapping_add(value.val, Word(1)))
    IN read(read_operand(c, m, instr, 0))

\* Executor::exec_dec
exec_dec(c, m, instr, next_eip) ==
    LET written(w) == IF w.res # "Ok" THEN Failure(w.res, w.cpu, w.mem)
                      ELSE Continue(next_eip, w.cpu, w.mem)
        computed(original, result) ==
            written(write_operand([c EXCEPT !.eflags = update_dec(c.eflags, result, original)],
                                  m, instr, 0, result))
        read(value) ==
            IF value.res # "Ok" THEN Failure(value.res, c, m)
            ELSE computed(value.val, wrapping_sub(value.val, Word(1)))
    IN read(read_operand(c, m, instr, 0))

\* Executor::exec_jmp
exec_jmp(c, m, instr) ==
    IF instr.op_kind[1] \in {"NearBranch16", "NearBranch32", "NearBranch64"}
    THEN Continue(instr.near_branch, c, m)
    ELSE Failure("InvalidOperand", c, m)

\* The mutation of exec_call that stores the address of the CALL itself.
exec_call_stores_eip(c, m, instr, next_eip) ==
    LET pushed(c1, w) ==
            IF w.res # "Ok" THEN Failure(w.res, c1, m)
            ELSE IF instr.op_kind[1] \in {"NearBranch16", "NearBranch32", "NearBranch64"}
            THEN Continue(instr.near_branch, c1, w.mem)
            ELSE Failure("InvalidOperand", c1, w.mem)
        decremented(c1) == pushed(c1, write_u32(m, usize(c1.regs.esp), c.eip))
    IN decremented([c EXCEPT !.regs.esp = wrapping_sub(c.regs.esp, Word(4))])

\* Executor::exec_call
exec_call(c, m, instr, next_eip) ==
    LET \* "Get target address", after the write of the return address
        pushed(c1, w) ==
            IF w.res # "Ok" THEN Failure(w.res, c1, m)
            ELSE IF instr.op_kind[1] \in {"NearBranch16", "NearBranch32", "NearBranch64"}
            THEN Continue(instr.near_branch, c1, w.mem)
            ELSE Failure("InvalidOperand", c1, w.mem)
        \* "Push return address"
        decremented(c1) == pushed(c1, write_u32(m, usize(c1.regs.esp), next_eip))
    IN decremented([c EXCEPT !.regs.esp = wrapping_sub(c.regs.esp, Word(4))])

\* Executor::exec_ret
exec_ret(c, m, instr) ==
    LET \* "Handle RET imm16 (pop additional bytes)"
        pop_bytes == IF Len(instr.op_kind) > 0 /\ instr.op_kind[1] = "Immediate16"
                     THEN instr.immediate ELSE Word(0)
        popped(return_addr) ==
            IF return_addr.res # "Ok" THEN Failure(return_addr.res, c, m)
            ELSE Continue(return_addr.val,
                          [c EXCEPT !.regs.esp =
                               wrapping_add(wrapping_add(c.regs.esp, Word(4)), pop_bytes)],
                          m)
    IN popped(read_u32(m, usize(c.regs.esp)))

\* The mutation of wrapping_mul64 that keeps only the low half of the product.
wrapping_mul64_low(x, y) ==
    LET RECURSIVE column(_, _), digits(_, _)
        column(k, i) == IF i > k THEN 0 ELSE x[i + 1] * y[k - i + 1] + column(k, i + 1)
        digits(k, carry) ==
            IF k = 8 THEN <<>>
            ELSE <<(column(k, 0) + carry) % 256>> \o digits(k + 1, (column(k, 0) + carry) \div 256)
        split(d) == [hi |-> Word(0), lo |-> from_le_bytes(SubVec(d, 0, 4))]
    IN split(digits(0, 0))

\* The product of two 64-bit integers given as 8 little-endian bytes each,
\* modulo 2^64 (u64 * u64, i64 * i64), as its two 32-bit halves
wrapping_mul64(x, y) ==
    LET RECURSIVE column(_, _), digits(_, _)
        \* the sum of the byte products x[i] * y[k - i] of weight 256^k, from i on
        column(k, i) == IF i > k THEN 0 ELSE x[i + 1] * y[k - i + 1] + column(k, i + 1)
        digits(k, carry) ==
            IF k = 8 THEN <<>>
            ELSE <<(column(k, 0) + carry) % 256>> \o digits(k + 1, (column(k, 0) + carry) \div 256)
        split(d) == [hi |-> from_le_bytes(SubVec(d, 4, 4)), lo |-> from_le_bytes(SubVec(d, 0, 4))]
    IN split(digits(0, 0))

\* Executor::exec_imul
exec_imul(c, m, instr, next_eip) ==
    LET \* v as i32 as i64
        as_i64(v) == to_le_bytes(v) \o (IF Neg32(v) THEN <<255, 255, 255, 255>> ELSE <<0, 0, 0, 0>>)
        \* result >= i32::MIN as i64 && result <= i32::MAX as i64
        fits(result) ==
            /\ ~Neg32(result.hi) \/ (result.hi = W(2^16 - 1, 2^16 - 1) /\ Neg32(result.lo))
            /\ Neg32(result.hi) \/ (result.hi = Word(0) /\ ~Neg32(result.lo))
        flagged(c1, result) ==
            [c1 EXCEPT !.eflags.of = ~fits(result), !.eflags.cf = ~fits(result)]
        \* IMUL r/m32: EDX:EAX = EAX * r/m32
        widened(result) ==
            Continue(next_eip,
                     flagged([c EXCEPT !.regs.eax = result.lo, !.regs.edx = result.hi], result), m)
        one(src) ==
            IF src.res # "Ok" THEN Failure(src.res, c, m)
            ELSE widened(wrapping_mul64(as_i64(c.regs.eax), as_i64(src.val)))
        \* IMUL r32, r/m32 and IMUL r32, r/m32, imm: r32 = low half of the product
        stored(w, result) ==
            IF w.res # "Ok" THEN Failure(w.res, w.cpu, w.mem)
            ELSE Continue(next_eip, flagged(w.cpu, result), w.mem)
        truncated(result) == stored(write_operand(c, m, instr, 0, result.lo), result)
        two(src, other) ==
            IF src.res # "Ok" THEN Failure(src.res, c, m)
            ELSE IF other.res # "Ok" THEN Failure(other.res, c, m)
            ELSE truncated(wrapping_mul64(as_i64(other.val), as_i64(src.val)))
    IN CASE Len(instr.op_kind) = 1 -> one(read_operand(c, m, instr, 0))
         [] Len(instr.op_kind) = 2 ->
              two(read_operand(c, m, instr, 1), read_operand(c, m, instr, 0))
         [] Len(instr.op_kind) = 3 ->
              two(read_operand(c, m, instr, 1), read_operand(c, m, instr, 2))
         [] OTHER -> Failure("InvalidOperand", c, m)

\* Executor::exec_mul
exec_mul(c, m, instr, next_eip) ==
    LET \* v as u64
        as_u64(v) == to_le_bytes(v) \o <<0, 0, 0, 0>>
        widened(result) ==
            Continue(next_eip,
                     [c EXCEPT !.regs.eax = result.lo, !.regs.edx = result.hi,
                               !.eflags.of = (result.hi # Word(0)),
                               !.eflags.cf = (result.hi # Word(0))],
                     m)
        one(src) ==
            IF src.res # "Ok" THEN Failure(src.res, c, m)
            ELSE widened(wrapping_mul64(as_u64(c.regs.eax), as_u64(src.val)))
    IN one(read_operand(c, m, instr, 0))

\* The mutation of exec_jcc that takes the branch whatever the condition.
exec_jcc_always(c, m, instr, next_eip, condition) ==
    IF instr.op_kind[1] \in {"NearBranch16", "NearBranch32", "NearBranch64"}
    THEN Continue(instr.near_branch, c, m)
    ELSE Failure("InvalidOperand", c, m)

\* Executor::exec_jcc
exec_jcc(c, m, instr, next_eip, condition) ==
    IF condition
    THEN IF instr.op_kind[1] \in {"NearBranch16", "NearBranch32", "NearBranch64"}
         THEN Continue(instr.near_branch, c, m)
         ELSE Failure("InvalidOperand", c, m)
    ELSE Continue(next_eip, c, m)

\* Executor::exec_int
exec_int(c, m, instr, next_eip) ==
    IF instr.op_kind[1] # "Immediate8" THEN Failure("InvalidOperand", c, m)
    ELSE IF instr.immediate = Word(3) THEN Outcome("Breakpoint", 0, c, m)
    ELSE Outcome("Interrupt", instr.immediate.lo, c, m)

\* The bytes execute_one and disassemble fetch at EIP: read_bytes(cpu.eip, 15)
Fetch(c, m) == read_bytes(m, usize(c.eip), 15)

\* execute_one that skips a mnemonic it has no arm for
execute_one_skips(c, m) ==
    LET \* "Execute based on mnemonic"
        execute(instr, next_eip) ==
            IF ~instr.valid THEN Failure("UnsupportedInstruction", c, m)
            ELSE CASE instr.mnemonic = "Mov" -> exec_mov(c, m, instr, next_eip)
                   [] instr.mnemonic = "Push" -> exec_push(c, m, instr, next_eip)
                   [] instr.mnemonic = "Pop" -> exec_pop(c, m, instr, next_eip)
                   [] instr.mnemonic = "Add" -> exec_add(c, m, instr, next_eip)
                   [] instr.mnemonic = "Sub" -> exec_sub(c, m, instr, next_eip)
                   [] instr.mnemonic = "Inc" -> exec_inc(c, m, instr, next_eip)
                   [] instr.mnemonic = "Imul" -> exec_imul(c, m, instr, next_eip)
                   [] instr.mnemonic = "Mul" -> exec_mul(c, m, instr, next_eip)
                   [] instr.mnemonic = "Dec" -> exec_dec(c, m, instr, next_eip)
                   [] instr.mnemonic \in {"And", "Or", "Xor"} -> exec_logic(c, m, instr, next_eip)
                   [] instr.mnemonic \in {"Shl", "Shr", "Sar"} -> exec_shift(c, m, instr, next_eip)
                   [] instr.mnemonic = "Cmp" -> exec_cmp(c, m, instr, next_eip)
                   [] instr.mnemonic = "Test" -> exec_test(c, m, instr, next_eip)
                   [] instr.mnemonic = "Jmp" -> exec_jmp(c, m, instr)
                   [] instr.mnemonic = "Je" -> exec_jcc(c, m, instr, next_eip, c.eflags.zf)
                   [] instr.mnemonic = "Jne" -> exec_jcc(c, m, instr, next_eip, ~c.eflags.zf)
                   [] instr.mnemonic = "Jg" ->
                        exec_jcc(c, m, instr, next_eip,
                                 ~c.eflags.zf /\ (c.eflags.sf = c.eflags.of))
                   [] instr.mnemonic = "Jge" ->
                        exec_jcc(c, m, instr, next_eip, c.eflags.sf = c.eflags.of)
                   [] instr.mnemonic = "Jl" ->
                        exec_jcc(c, m, instr, next_eip, c.eflags.sf # c.eflags.of)
                   [] instr.mnemonic = "Jle" ->
                        exec_jcc(c, m, instr, next_eip,
                                 c.eflags.zf \/ (c.eflags.sf # c.eflags.of))
                   [] instr.mnemonic = "Ja" ->
                        exec_jcc(c, m, instr, next_eip, ~c.eflags.cf /\ ~c.eflags.zf)
                   [] instr.mnemonic = "Jae" -> exec_jcc(c, m, instr, next_eip, ~c.eflags.cf)
                   [] instr.mnemonic = "Jb" -> exec_jcc(c, m, instr, next_eip, c.eflags.cf)
                   [] instr.mnemonic = "Jbe" ->
                        exec_jcc(c, m, instr, next_eip, c.eflags.cf \/ c.eflags.zf)
                   [] instr.mnemonic = "Js" -> exec_jcc(c, m, instr, next_eip, c.eflags.sf)
                   [] instr.mnemonic = "Jns" -> exec_jcc(c, m, instr, next_eip, ~c.eflags.sf)
                   [] instr.mnemonic = "Jo" -> exec_jcc(c, m, instr, next_eip, c.eflags.of)
                   [] instr.mnemonic = "Jno" -> exec_jcc(c, m, instr, next_eip, ~c.eflags.of)
                   [] instr.mnemonic = "Call" -> exec_call(c, m, instr, next_eip)
                   [] instr.mnemonic = "Ret" -> exec_ret(c, m, instr)
                   [] instr.mnemonic = "Nop" -> Continue(next_eip, c, m)
                   [] instr.mnemonic = "Hlt" -> Outcome("Halt", 0, [c EXCEPT !.halted = TRUE], m)
                   [] instr.mnemonic = "Int" -> exec_int(c, m, instr, next_eip)
                   [] instr.mnemonic = "Int3" -> Outcome("Breakpoint", 0, c, m)
                   [] OTHER -> Continue(next_eip, c, m)
        \* "Decode instruction": next_eip = cpu.eip + instr.len()
        decoded(instr) == execute(instr, wrapping_add(c.eip, Word(instr.len)))
        \* "Fetch bytes from current EIP"
        fetched(bytes) ==
            IF bytes.res # "Ok" THEN Failure(bytes.res, c, m)
            ELSE decoded(Decode(bytes.val, c.eip))
    IN fetched(Fetch(c, m))

\* Executor::execute_one
execute_one(c, m) ==
    LET \* "Execute based on mnemonic"
        execute(instr, next_eip) ==
            IF ~instr.valid THEN Failure("UnsupportedInstruction", c, m)
            ELSE CASE instr.mnemonic = "Mov" -> exec_mov(c, m, instr, next_eip)
                   [] instr.mnemonic = "Push" -> exec_push(c, m, instr, next_eip)
                   [] instr.mnemonic = "Pop" -> exec_pop(c, m, instr, next_eip)
                   [] instr.mnemonic = "Add" -> exec_add(c, m, instr, next_eip)
                   [] instr.mnemonic = "Sub" -> exec_sub(c, m, instr, next_eip)
                   [] instr.mnemonic = "Inc" -> exec_inc(c, m, instr, next_eip)
                   [] instr.mnemonic = "Imul" -> exec_imul(c, m, instr, next_eip)
                   [] instr.mnemonic = "Mul" -> exec_mul(c, m, instr, next_eip)
                   [] instr.mnemonic = "Dec" -> exec_dec(c, m, instr, next_eip)
                   [] instr.mnemonic \in {"And", "Or", "Xor"} -> exec_logic(c, m, instr, next_eip)
                   [] instr.mnemonic \in {"Shl", "Shr", "Sar"} -> exec_shift(c, m, instr, next_eip)
                   [] instr.mnemonic = "Cmp" -> exec_cmp(c, m, instr, next_eip)
                   [] instr.mnemonic = "Test" -> exec_test(c, m, instr, next_eip)
                   [] instr.mnemonic = "Jmp" -> exec_jmp(c, m, instr)
                   [] instr.mnemonic = "Je" -> exec_jcc(c, m, instr, next_eip, c.eflags.zf)
                   [] instr.mnemonic = "Jne" -> exec_jcc(c, m, instr, next_eip, ~c.eflags.zf)
                   [] instr.mnemonic = "Jg" ->
                        exec_jcc(c, m, instr, next_eip,
                                 ~c.eflags.zf /\ (c.eflags.sf = c.eflags.of))
                   [] instr.mnemonic = "Jge" ->
                        exec_jcc(c, m, instr, next_eip, c.eflags.sf = c.eflags.of)
                   [] instr.mnemonic = "Jl" ->
                        exec_jcc(c, m, instr, next_eip, c.eflags.sf # c.eflags.of)
                   [] instr.mnemonic = "Jle" ->
                        exec_jcc(c, m, instr, next_eip,
                                 c.eflags.zf \/ (c.eflags.sf # c.eflags.of))
                   [] instr.mnemonic = "Ja" ->
                        exec_jcc(c, m, instr, next_eip, ~c.eflags.cf /\ ~c.eflags.zf)
                   [] instr.mnemonic = "Jae" -> exec_jcc(c, m, instr, next_eip, ~c.eflags.cf)
                   [] instr.mnemonic = "Jb" -> exec_jcc(c, m, instr, next_eip, c.eflags.cf)
                   [] instr.mnemonic = "Jbe" ->
                        exec_jcc(c, m, instr, next_eip, c.eflags.cf \/ c.eflags.zf)
                   [] instr.mnemonic = "Js" -> exec_jcc(c, m, instr, next_eip, c.eflags.sf)
                   [] instr.mnemonic = "Jns" -> exec_jcc(c, m, instr, next_eip, ~c.eflags.sf)
                   [] instr.mnemonic = "Jo" -> exec_jcc(c, m, instr, next_eip, c.eflags.of)
                   [] instr.mnemonic = "Jno" -> exec_jcc(c, m, instr, next_eip, ~c.eflags.of)
                   [] instr.mnemonic = "Call" -> exec_call(c, m, instr, next_eip)
                   [] instr.mnemonic = "Ret" -> exec_ret(c, m, instr)
                   [] instr.mnemonic = "Nop" -> Continue(next_eip, c, m)
                   [] instr.mnemonic = "Hlt" -> Outcome("Halt", 0, [c EXCEPT !.halted = TRUE], m)
                   [] instr.mnemonic = "Int" -> exec_int(c, m, instr, next_eip)
                   [] instr.mnemonic = "Int3" -> Outcome("Breakpoint", 0, c, m)
                   [] OTHER -> Failure("UnsupportedInstruction", c, m)
        \* "Decode instruction": next_eip = cpu.eip + instr.len()
        decoded(instr) == execute(instr, wrapping_add(c.eip, Word(instr.len)))
        \* "Fetch bytes from current EIP"
        fetched(bytes) ==
            IF bytes.res # "Ok" THEN Failure(bytes.res, c, m)
            ELSE decoded(Decode(bytes.val, c.eip))
    IN fetched(Fetch(c, m))

\* Executor::disassemble(memory, address, 1).into_iter().next(): whether it
\* is Some(line), and the mnemonic that stands for line.text
disassemble(c, m) ==
    LET line(instr) ==
            IF instr.valid THEN [some |-> TRUE, text |-> instr.mnemonic]
            ELSE [some |-> FALSE, text |-> ""]
        fetched(bytes) ==
            IF bytes.res = "Ok" THEN line(Decode(bytes.val, c.eip))
            ELSE [some |-> FALSE, text |-> ""]
    IN fetched(Fetch(c, m))

\* The decode table covers the bytes at EIP (or the fetch itself fails).
InTable(c, m) ==
    LET fetched(bytes) ==
            IF bytes.res # "Ok" THEN TRUE ELSE Decode(bytes.val, c.eip).modelled
    IN fetched(Fetch(c, m))


(***************************************************************************)
(* Debugger (debugger/execution.rs)                                        *)
(***************************************************************************)
\* DebuggerState
Ready == [tag |-> "Ready", addr |-> Word(0)]
Running == [tag |-> "Running", addr |-> Word(0)]
AtBreakpoint(a) == [tag |-> "AtBreakpoint", addr |-> a]
Halted == [tag |-> "Halted", addr |-> Word(0)]
LimitExceeded == [tag |-> "LimitExceeded", addr |-> Word(0)]

\* HistoryEntry
HistoryEntry(eip, cpu_snapshot, text) ==
    [eip |-> eip, cpu_snapshot |-> cpu_snapshot, instruction_text |-> text]

\* The fields of the Debugger that step() reads and writes.
Dbg ==
    [cpu |-> cpu, memory |-> memory, state |-> state, breakpoints |-> breakpoints,
     max_instructions |-> max_instructions,
     instructions_executed |-> instructions_executed,
     total_instructions |-> total_instructions, history |-> history]

Install(d) ==
    /\ cpu' = d.cpu
    /\ memory' = d.memory
    /\ state' = d.state
    /\ breakpoints' = d.breakpoints
    /\ max_instructions' = d.max_instructions
    /\ instructions_executed' = d.instructions_executed
    /\ total_instructions' = d.total_instructions
    /\ history' = d.history

\* The mutation of push_history that, on a full trace, keeps the oldest entry
\* and drops the new one.
push_history_keeps_oldest(h, entry) ==
    IF Len(h) >= max_history THEN h ELSE Append(h, entry)

\* step(): history.push_back(entry); if history.len() > max_history { pop_front }
push_history(h, entry) ==
    LET pushed == Append(h, entry)
    IN IF Len(pushed) > max_history THEN Tail(pushed) ELSE pushed

\* The mutation of resolve that tests the ceiling before the breakpoints.
resolve_limit_first(d, x, executed) ==
    CASE x.kind = "Continue" ->
           [cpu |-> [x.cpu EXCEPT !.eip = x.next_eip],
            state |-> IF executed >= d.max_instructions THEN LimitExceeded
                      ELSE IF x.next_eip \in d.breakpoints THEN AtBreakpoint(x.next_eip)
                      ELSE Ready]
      [] x.kind = "Halt" ->
           [cpu |-> [x.cpu EXCEPT !.halted = TRUE], state |-> Halted]
      [] x.kind = "Breakpoint" ->
           [cpu |-> x.cpu, state |-> AtBreakpoint(x.cpu.eip)]
      [] x.kind = "Interrupt" ->
           [cpu |-> x.cpu, state |-> Ready]

\* The mutation of resolve that clears the CPU on a HLT.
resolve_halt_clears(d, x, executed) ==
    CASE x.kind = "Continue" ->
           [cpu |-> [x.cpu EXCEPT !.eip = x.next_eip],
            state |-> IF x.next_eip \in d.breakpoints THEN AtBreakpoint(x.next_eip)
                      ELSE IF executed >= d.max_instructions THEN LimitExceeded
                      ELSE Ready]
      [] x.kind = "Halt" ->
           [cpu |-> [CpuDefault EXCEPT !.halted = TRUE], state |-> Halted]
      [] x.kind = "Breakpoint" ->
           [cpu |-> x.cpu, state |-> AtBreakpoint(x.cpu.eip)]
      [] x.kind = "Interrupt" ->
           [cpu |-> x.cpu, state |-> Ready]

\* step(): "Determine new state and apply result", given the counters after
\* their increment
resolve(d, x, executed) ==
    CASE x.kind = "Continue" ->
           [cpu |-> [x.cpu EXCEPT !.eip = x.next_eip],
            state |-> IF x.next_eip \in d.breakpoints THEN AtBreakpoint(x.next_eip)
                      ELSE IF executed >= d.max_instructions THEN LimitExceeded
                      ELSE Ready]
      [] x.kind = "Halt" ->
           [cpu |-> [x.cpu EXCEPT !.halted = TRUE], state |-> Halted]
      [] x.kind = "Breakpoint" ->
           [cpu |-> x.cpu, state |-> AtBreakpoint(x.cpu.eip)]
      [] x.kind = "Interrupt" ->
           [cpu |-> x.cpu, state |-> Ready]

\* The mutation of step()'s entry check that lets a LimitExceeded debugger step.
is_terminal_halted_only(st) == st.tag = "Halted"

\* step(): matches!(self.state, DebuggerState::Halted | DebuggerState::LimitExceeded)
is_terminal(st) == st.tag \in {"Halted", "LimitExceeded"}

\* Debugger::step: the Result's tag and the debugger it leaves behind
step(d) ==
    IF is_terminal(d.state)
    THEN [res |-> "AlreadyHalted", d |-> d]
    ELSE LET old_cpu == d.cpu
             \* the rest of step(), given the disassembled line and the result of
             \* executor.execute_one
             executed(instruction, x) ==
                 IF x.res # "Ok"
                 THEN [res |-> x.res, d |-> [d EXCEPT !.cpu = x.cpu, !.memory = x.mem]]
                 ELSE LET hist == IF instruction.some
                                  THEN push_history(d.history,
                                         HistoryEntry(old_cpu.eip, old_cpu, instruction.text))
                                  ELSE d.history
                          count == d.instructions_executed + 1
                          r == resolve(d, x, count)
                      IN [res |-> "Ok",
                          d |-> [d EXCEPT !.cpu = r.cpu, !.memory = x.mem, !.history = hist,
                                          !.instructions_executed = count,
                                          !.total_instructions = d.total_instructions + 1,
                                          !.state = r.state]]
         IN executed(disassemble(d.cpu, d.memory), execute_one(d.cpu, d.memory))

\* What a completed call returned, with its arguments and the raw memory
\* before the call.
Ret(op, res, addr, count, bytes, entry) ==
    [op |-> op, res |-> res, addr |-> addr, count |-> count, bytes |-> bytes,
     entry |-> entry, pre |-> raw(memory)]

\* No run of patches is under way.
NoStreak ==
    [k |-> 0, j |-> 0, i |-> 0, ok |-> TRUE, same |-> TRUE, base |-> <<>>, top |-> <<>>]

\* The run of calls the completed call r extends: k successful patch() calls,
\* then j undo_patch() calls, then, once j = k, i redo_patch() calls, with
\* nothing in between but changes of the regions and of the enforcement
\* (same = FALSE after one).  base is the raw memory before the first patch,
\* top the raw memory `after` the last one, ok whether every undo and redo
\* so far returned Ok.  Any other call ends the run.
Streak(s, r, after) ==
    CASE r.op = "patch" /\ r.res = "Ok" ->
           IF s.k > 0 /\ s.j = 0
           THEN [s EXCEPT !.k = s.k + 1, !.top = after]
           ELSE [NoStreak EXCEPT !.k = 1, !.base = r.pre, !.top = after]
      [] r.op = "undo_patch" /\ s.k > 0 /\ s.i = 0 /\ s.j < s.k ->
           [s EXCEPT !.j = s.j + 1, !.ok = s.ok /\ r.res = "Ok"]
      [] r.op = "redo_patch" /\ s.k > 0 /\ s.j = s.k /\ s.i < s.k ->
           [s EXCEPT !.i = s.i + 1, !.ok = s.ok /\ r.res = "Ok"]
      [] r.op \in {"set_enforce_permissions", "add_region"} /\ s.k > 0 ->
           [s EXCEPT !.same = FALSE]
      [] OTHER -> NoStreak

\* No call worth keeping came before the last one.
NoPrev == [op |-> "", res |-> "", addr |-> 0, bytes |-> <<>>, streak |-> NoStreak]

\* The calls that a later call is compared with.
Kept == {"patch", "undo_patch", "write_bytes", "reset"}

Return(r) ==
    /\ ret' = r
    /\ prev' = IF ret.op \in Kept
               THEN [op |-> ret.op, res |-> ret.res, addr |-> ret.addr, bytes |-> ret.bytes,
                     streak |-> Streak(prev.streak, r, raw(memory'))]
               ELSE [NoPrev EXCEPT !.streak = Streak(prev.streak, r, raw(memory'))]

NoCall == [op |-> "new", res |-> "Ok", addr |-> 0, count |-> 0, bytes |-> <<>>,
           entry |-> <<>>, pre |-> raw(MemoryNew(MemSize))]

\* Bookkeeping of the pre-step CPU states, beside a step that returned `res`.
Shadowed(res) ==
    /\ shadow' = IF res = "Ok" THEN Append(shadow, cpu) ELSE shadow
    /\ shadow_peak' = IF res = "Ok" THEN Max(shadow_peak, Len(shadow) + 1) ELSE shadow_peak

\* A call counted `cost` times against the bound `limit` on such calls in a
\* behaviour.
Spend(limit, cost) ==
    calls + cost <= limit /\ calls' = calls + cost /\ UNCHANGED overflow_checks

\* A call counted once against the bound `limit`.
Budget(limit) == Spend(limit, 1)

\* Debugger::step called by the user
Step ==
    /\ pc = "idle"
    /\ UNCHANGED <<calls, overflow_checks>>
    /\ total_instructions < MaxTotal
    /\ InTable(cpu, memory)
    /\ LET returned(s) ==
               /\ Install(s.d)
               /\ Return(Ret("step", s.res, 0, 0, <<>>, <<>>))
               /\ Shadowed(s.res)
       IN returned(step(Dbg))
    /\ UNCHANGED <<patch_history, initial_cpu, initial_memory, pc, run_frame, saved>>

\* The mutation of run that zeroes the lifetime counter with the per-run one.
Run_zeroes_total ==
    /\ pc = "idle"
    /\ UNCHANGED <<calls, overflow_checks>>
    /\ instructions_executed' = 0
    /\ total_instructions' = 0
    /\ state' = Running
    /\ pc' = "run"
    /\ run_frame' = [run_n |-> FALSE, original_limit |-> 0, halted |-> state = Halted]
    /\ UNCHANGED <<cpu, memory, breakpoints, max_instructions, history,
                   patch_history, initial_cpu, initial_memory, ret, prev, shadow, shadow_peak, saved>>

\* Debugger::run up to its loop
Run ==
    /\ pc = "idle"
    /\ UNCHANGED <<calls, overflow_checks>>
    /\ instructions_executed' = 0
    /\ state' = Running
    /\ pc' = "run"
    /\ run_frame' = [run_n |-> FALSE, original_limit |-> 0, halted |-> state = Halted]
    /\ UNCHANGED <<cpu, memory, breakpoints, max_instructions, total_instructions, history,
                   patch_history, initial_cpu, initial_memory, ret, prev, shadow, shadow_peak, saved>>

\* Debugger::run_n up to the loop of the run() it calls
RunN(count) ==
    /\ pc = "idle"
    /\ UNCHANGED <<calls, overflow_checks>>
    /\ max_instructions' = count
    /\ instructions_executed' = 0
    /\ state' = Running
    /\ pc' = "run"
    /\ run_frame' = [run_n |-> TRUE, original_limit |-> max_instructions,
                     halted |-> state = Halted]
    /\ UNCHANGED <<cpu, memory, breakpoints, total_instructions, history,
                   patch_history, initial_cpu, initial_memory, ret, prev, shadow, shadow_peak, saved>>

\* run()'s match on result.state: the RunResult it returns, or "" to go on looping
run_result(d) ==
    CASE d.state.tag = "AtBreakpoint" -> "Breakpoint"
      [] d.state.tag = "Halted" -> "Halted"
      [] d.state.tag = "LimitExceeded" -> "LimitExceeded"
      [] d.state.tag = "Error" -> "Error"
      [] OTHER -> ""

\* Debugger::run as a whole, for a run that returns within `fuel` iterations
\* of its loop: the Result's tag (a RunResult or an error; "" when the fuel
\* runs out) and the debugger it leaves behind.
run(d, fuel) ==
    LET RECURSIVE loop(_, _)
        loop(dbg, n) ==
            LET matched(s, out) ==
                    IF out # "" THEN [res |-> out, d |-> s.d]
                    ELSE IF n = 1 THEN [res |-> "", d |-> s.d]
                    ELSE loop(s.d, n - 1)
                stepped(s) == matched(s, IF s.res # "Ok" THEN s.res ELSE run_result(s.d))
            IN stepped(step(dbg))
    IN loop([d EXCEPT !.instructions_executed = 0, !.state = Running], fuel)

\* One iteration of run()'s loop; on return, run_n() restores max_instructions.
RunLoop ==
    /\ pc = "run"
    /\ UNCHANGED <<calls, overflow_checks>>
    /\ total_instructions < MaxTotal
    /\ InTable(cpu, memory)
    /\ LET op == IF run_frame.run_n THEN "run_n" ELSE "run"
           \* the match on the step's result: out is the RunResult, "" to loop on
           matched(s, out) ==
               /\ Install(IF out # "" /\ run_frame.run_n
                          THEN [s.d EXCEPT !.max_instructions = run_frame.original_limit]
                          ELSE s.d)
               /\ Shadowed(s.res)
               /\ IF out = ""
                  THEN UNCHANGED <<pc, ret, prev>>
                  ELSE /\ pc' = "idle"
                       /\ Return(Ret(op, out, usize(s.d.state.addr),
                                     IF out = "LimitExceeded" THEN s.d.instructions_executed ELSE 0,
                                     <<>>, <<>>))
           stepped(s) == matched(s, IF s.res # "Ok" THEN s.res ELSE run_result(s.d))
       IN stepped(step(Dbg))
    /\ UNCHANGED <<patch_history, initial_cpu, initial_memory, run_frame, saved>>

\* The mutation of step_back that takes the undone instruction off the counters.
step_back_uncounts(d) ==
    IF d.history # <<>>
    THEN [entry |-> <<Last(d.history)>>,
          d |-> [d EXCEPT !.history = Front(d.history),
                          !.cpu = Last(d.history).cpu_snapshot,
                          !.state = Ready,
                          !.instructions_executed = Max(@ - 1, 0),
                          !.total_instructions = Max(@ - 1, 0)]]
    ELSE [entry |-> <<>>, d |-> d]

\* The mutation of step_back that takes the oldest entry of the trace.
step_back_oldest(d) ==
    IF d.history # <<>>
    THEN [entry |-> <<Head(d.history)>>,
          d |-> [d EXCEPT !.history = Tail(d.history),
                          !.cpu = Head(d.history).cpu_snapshot,
                          !.state = Ready]]
    ELSE [entry |-> <<>>, d |-> d]

\* Debugger::step_back
step_back(d) ==
    IF d.history # <<>>
    THEN [entry |-> <<Last(d.history)>>,
          d |-> [d EXCEPT !.history = Front(d.history),
                          !.cpu = Last(d.history).cpu_snapshot,
                          !.state = Ready]]
    ELSE [entry |-> <<>>, d |-> d]

StepBack ==
    /\ pc = "idle"
    /\ UNCHANGED <<calls, overflow_checks>>
    /\ LET b == step_back(Dbg)
       IN /\ Install(b.d)
          /\ Return(Ret("step_back", "Ok", 0, 0, <<>>, b.entry))
          /\ shadow' = IF shadow = <<>> THEN <<>> ELSE Front(shadow)
          /\ shadow_peak' = IF Len(shadow) <= 1 THEN 0 ELSE shadow_peak
    /\ UNCHANGED <<patch_history, initial_cpu, initial_memory, pc, run_frame, saved>>


\* Vec<u8> of a raw buffer, as the slice handed to load()
ToVec(f) == [i \in 1..Cardinality(DOMAIN f) |-> f[i - 1]]

\* The mutation of reset that leaves the memory bytes as they are.
Reset_keeps_memory ==
    /\ pc = "idle"
    /\ Budget(MaxSetup)
    /\ cpu' = initial_cpu
    /\ memory' = memory
    /\ state' = Ready
    /\ instructions_executed' = 0
    /\ history' = <<>>
    /\ patch_history' = clear(patch_history)
    /\ Return(Ret("reset", "Ok", 0, 0, <<>>, <<>>))
    /\ shadow' = <<>>
    /\ shadow_peak' = 0
    /\ UNCHANGED <<breakpoints, max_instructions, total_instructions,
                   initial_cpu, initial_memory, pc, run_frame, saved>>

\* The mutation of reset that also removes the breakpoints.
Reset_clears_breakpoints ==
    /\ pc = "idle"
    /\ Budget(MaxSetup)
    /\ cpu' = initial_cpu
    /\ memory' = load(memory, 0, ToVec(initial_memory)).mem
    /\ state' = Ready
    /\ instructions_executed' = 0
    /\ history' = <<>>
    /\ patch_history' = clear(patch_history)
    /\ breakpoints' = {}
    /\ Return(Ret("reset", "Ok", 0, 0, <<>>, <<>>))
    /\ shadow' = <<>>
    /\ shadow_peak' = 0
    /\ UNCHANGED <<max_instructions, total_instructions,
                   initial_cpu, initial_memory, pc, run_frame, saved>>

\* Debugger::reset
Reset ==
    /\ pc = "idle"
    /\ Budget(MaxSetup)
    /\ cpu' = initial_cpu
    /\ memory' = load(memory, 0, ToVec(initial_memory)).mem
    /\ state' = Ready
    /\ instructions_executed' = 0
    /\ history' = <<>>
    /\ patch_history' = clear(patch_history)
    /\ Return(Ret("reset", "Ok", 0, 0, <<>>, <<>>))
    /\ shadow' = <<>>
    /\ shadow_peak' = 0
    /\ UNCHANGED <<breakpoints, max_instructions, total_instructions,
                   initial_cpu, initial_memory, pc, run_frame, saved>>

\* Debugger::save_initial_state
SaveInitialState ==
    /\ pc = "idle"
    /\ Budget(MaxSetup)
    /\ initial_cpu' = cpu
    /\ initial_memory' = raw(memory)
    /\ Return(Ret("save_initial_state", "Ok", 0, 0, <<>>, <<>>))
    /\ saved' = [some |-> TRUE, cpu |-> cpu, memory |-> raw(memory), touched |-> FALSE]
    /\ UNCHANGED <<cpu, memory, state, breakpoints, max_instructions, instructions_executed,
                   total_instructions, history, patch_history, pc, run_frame,
                   shadow, shadow_peak>>

\* Bookkeeping: a call that writes the stored snapshot came after the last
\* save_initial_state().
Touched == [saved EXCEPT !.touched = saved.some]

\* Debugger::load_code / Debugger::load_data (the same body)
load_into(op, address, bytes) ==
    /\ pc = "idle"
    /\ Budget(MaxSetup)
    /\ LET l == load(memory, address, bytes)
       IN /\ memory' = l.mem
          /\ initial_memory' = IF l.res = "Ok" THEN raw(l.mem) ELSE initial_memory
          /\ Return(Ret(op, l.res, address, 0, bytes, <<>>))
          /\ saved' = IF l.res = "Ok" THEN Touched ELSE saved
    /\ UNCHANGED <<cpu, state, breakpoints, max_instructions, instructions_executed,
                   total_instructions, history, patch_history, initial_cpu, pc, run_frame,
                   shadow, shadow_peak>>

LoadCode(address, code) == load_into("load_code", address, code)

LoadData(address, data) == load_into("load_data", address, data)

\* debugger.cpu.set_register(reg, value), through the public field cpu.  The
\* model sets the operands before the first instruction is executed.
SetRegister(reg, value) ==
    /\ pc = "idle"
    /\ total_instructions = 0
    /\ Budget(MaxAluSetup)
    /\ cpu' = set_register(cpu, reg, value)
    /\ Return(Ret("set_register", "Ok", 0, 0, <<>>, <<>>))
    /\ UNCHANGED <<memory, state, breakpoints, max_instructions, instructions_executed,
                   total_instructions, history, patch_history, initial_cpu, initial_memory,
                   pc, run_frame, shadow, shadow_peak, saved>>

\* debugger.cpu.eflags = flags, through the public fields cpu and eflags
SetEflags(flags) ==
    /\ pc = "idle"
    /\ total_instructions = 0
    /\ Budget(MaxAluSetup)
    /\ cpu' = [cpu EXCEPT !.eflags = flags]
    /\ Return(Ret("set_eflags", "Ok", 0, 0, <<>>, <<>>))
    /\ UNCHANGED <<memory, state, breakpoints, max_instructions, instructions_executed,
                   total_instructions, history, patch_history, initial_cpu, initial_memory,
                   pc, run_frame, shadow, shadow_peak, saved>>

\* Debugger::set_entry_point
SetEntryPoint(address) ==
    /\ pc = "idle"
    /\ Budget(MaxSetup)
    /\ cpu' = [cpu EXCEPT !.eip = Word(address)]
    /\ initial_cpu' = [initial_cpu EXCEPT !.eip = Word(address)]
    /\ Return(Ret("set_entry_point", "Ok", address, 0, <<>>, <<>>))
    /\ saved' = Touched
    /\ UNCHANGED <<memory, state, breakpoints, max_instructions, instructions_executed,
                   total_instructions, history, patch_history, initial_memory, pc, run_frame,
                   shadow, shadow_peak>>

\* Debugger::set_stack_pointer
SetStackPointer(address) ==
    /\ pc = "idle"
    /\ Budget(MaxSetup)
    /\ cpu' = [cpu EXCEPT !.regs.esp = Word(address)]
    /\ initial_cpu' = [initial_cpu EXCEPT !.regs.esp = Word(address)]
    /\ Return(Ret("set_stack_pointer", "Ok", address, 0, <<>>, <<>>))
    /\ saved' = Touched
    /\ UNCHANGED <<memory, state, breakpoints, max_instructions, instructions_executed,
                   total_instructions, history, patch_history, initial_memory, pc, run_frame,
                   shadow, shadow_peak>>

\* Debugger::toggle_breakpoint
ToggleBreakpoint(address) ==
    /\ pc = "idle"
    /\ Budget(MaxSetup)
    /\ breakpoints' = IF Word(address) \in breakpoints
                      THEN breakpoints \ {Word(address)} ELSE breakpoints \cup {Word(address)}
    /\ Return(Ret("toggle_breakpoint", IF Word(address) \in breakpoints THEN "false" ELSE "true",
                  address, 0, <<>>, <<>>))
    /\ UNCHANGED <<cpu, memory, state, max_instructions, instructions_executed,
                   total_instructions, history, patch_history, initial_cpu, initial_memory,
                   pc, run_frame, shadow, shadow_peak, saved>>

\* The caller assigns the public field max_instructions.
SetMaxInstructions(limit) ==
    /\ pc = "idle"
    /\ Budget(MaxSetup)
    /\ max_instructions' = limit
    /\ Return(Ret("max_instructions", "Ok", 0, limit, <<>>, <<>>))
    /\ UNCHANGED <<cpu, memory, state, breakpoints, instructions_executed,
                   total_instructions, history, patch_history, initial_cpu, initial_memory,
                   pc, run_frame, shadow, shadow_peak, saved>>

\* The mutation of patch that records the patch before it writes.
patch_records_first(m, h, address, bytes) ==
    LET old_bytes == read_bytes(m, address, Len(bytes))
    IN IF old_bytes.res # "Ok" THEN [res |-> old_bytes.res, mem |-> m, h |-> h]
       ELSE LET w(recorded) ==
                    LET wr == write_bytes(m, address, bytes)
                    IN IF wr.res # "Ok" THEN [res |-> wr.res, mem |-> m, h |-> recorded]
                       ELSE [res |-> "Ok", mem |-> wr.mem, h |-> recorded]
            IN w(record(h, MemoryPatch(address, old_bytes.val, bytes)))

\* Debugger::patch: the Result's tag, the memory and the patch history
patch(m, h, address, bytes) ==
    LET old_bytes == read_bytes(m, address, Len(bytes))
    IN IF old_bytes.res # "Ok" THEN [res |-> old_bytes.res, mem |-> m, h |-> h]
       ELSE LET w == write_bytes(m, address, bytes)
            IN IF w.res # "Ok" THEN [res |-> w.res, mem |-> m, h |-> h]
               ELSE [res |-> "Ok", mem |-> w.mem,
                     h |-> record(h, MemoryPatch(address, old_bytes.val, bytes))]

\* undo_patch that empties the redo stack when there is nothing to undo
undo_patch_drops_redo(m, h) ==
    LET u == undo(h)
    IN IF u.some
       THEN LET w == write_bytes(m, u.patch.address, u.patch.new_bytes)
            IN [res |-> w.res, mem |-> w.mem, h |-> u.h]
       ELSE [res |-> "NothingToUndo", mem |-> m, h |-> HistoryNew]

\* Debugger::undo_patch
undo_patch(m, h) ==
    LET u == undo(h)
    IN IF u.some
       THEN LET w == write_bytes(m, u.patch.address, u.patch.new_bytes)
            IN [res |-> w.res, mem |-> w.mem, h |-> u.h]
       ELSE [res |-> "NothingToUndo", mem |-> m, h |-> h]

\* Debugger::redo_patch
redo_patch(m, h) ==
    LET u == redo(h)
    IN IF u.some
       THEN LET w == write_bytes(m, u.patch.address, u.patch.new_bytes)
            IN [res |-> w.res, mem |-> w.mem, h |-> u.h]
       ELSE [res |-> "NothingToRedo", mem |-> m, h |-> h]

Patch(address, bytes) ==
    /\ pc = "idle"
    /\ Budget(MaxPatchCalls)
    /\ LET p == patch(memory, patch_history, address, bytes)
       IN /\ memory' = p.mem
          /\ patch_history' = p.h
          /\ Return(Ret("patch", p.res, address, 0, bytes, <<>>))
    /\ UNCHANGED dbgvars_but_patches

UndoPatch ==
    /\ pc = "idle"
    /\ UNCHANGED <<calls, overflow_checks>>
    /\ LET p == undo_patch(memory, patch_history)
       IN /\ memory' = p.mem
          /\ patch_history' = p.h
          /\ Return(Ret("undo_patch", p.res, 0, 0, <<>>, <<>>))
    /\ UNCHANGED dbgvars_but_patches

RedoPatch ==
    /\ pc = "idle"
    /\ UNCHANGED <<calls, overflow_checks>>
    /\ LET p == redo_patch(memory, patch_history)
       IN /\ memory' = p.mem
          /\ patch_history' = p.h
          /\ Return(Ret("redo_patch", p.res, 0, 0, <<>>, <<>>))
    /\ UNCHANGED dbgvars_but_patches

\* Memory::set_enforce_permissions on the public field memory
SetEnforcePermissions(enforce) ==
    /\ pc = "idle"
    /\ Budget(MaxPatchCalls)
    /\ memory' = [memory EXCEPT !.enforce_permissions = enforce]
    /\ Return(Ret("set_enforce_permissions", "Ok", 0, 0, <<>>, <<>>))
    /\ UNCHANGED <<patch_history>>
    /\ UNCHANGED dbgvars_but_patches

\* Memory::add_region on the public field memory
AddRegion(region) ==
    /\ pc = "idle"
    /\ Budget(MaxPatchCalls)
    /\ Len(memory.regions) < MaxRegions
    /\ memory' = [memory EXCEPT !.regions = Append(memory.regions, region)]
    /\ Return(Ret("add_region", "Ok", 0, 0, <<>>, <<>>))
    /\ UNCHANGED <<patch_history>>
    /\ UNCHANGED dbgvars_but_patches

\* Memory::write_bytes called on the memory
WriteBytes(address, bytes) ==
    /\ pc = "idle"
    /\ Spend(MaxMemOps, 2)
    /\ memory' = write_bytes(memory, address, bytes).mem
    /\ Return(Ret("write_bytes", write_bytes(memory, address, bytes).res,
                  address, 0, bytes, <<>>))
    /\ UNCHANGED <<patch_history>>
    /\ UNCHANGED dbgvars_but_patches

\* Memory::read_bytes called on the memory
ReadBytes(address, count) ==
    /\ pc = "idle"
    /\ Spend(MaxMemOps, 2)
    /\ Return(Ret("read_bytes", read_bytes(memory, address, count).res,
                  address, count, read_bytes(memory, address, count).val, <<>>))
    /\ UNCHANGED <<memory, patch_history>>
    /\ UNCHANGED dbgvars_but_patches

\* Memory::read_u8 / read_u16 / read_u32 called on the memory (width 1, 2, 4);
\* the value read is recorded as its little-endian bytes
ReadUint(width, address) ==
    /\ pc = "idle"
    /\ Spend(MaxMemOps, 2)
    /\ LET r == CASE width = 1 -> read_u8(memory, address)
                   [] width = 2 -> read_u16(memory, address)
                   [] width = 4 -> read_u32(memory, address)
           le == CASE r.res # "Ok" -> <<>>
                   [] width = 1 -> <<r.val>>
                   [] width = 2 -> <<r.val % 256, r.val \div 256>>
                   [] width = 4 -> to_le_bytes(r.val)
       IN Return(Ret(CASE width = 1 -> "read_u8" [] width = 2 -> "read_u16"
                       [] width = 4 -> "read_u32",
                     r.res, address, width, le, <<>>))
    /\ UNCHANGED <<memory, patch_history>>
    /\ UNCHANGED dbgvars_but_patches

\* Memory::write_u8 / write_u16 / write_u32 called on the memory (width 1, 2,
\* 4) with the value whose little-endian bytes are `bytes`
WriteUint(width, address, bytes) ==
    /\ pc = "idle"
    /\ Spend(MaxMemOps, 2)
    /\ LET w == CASE width = 1 -> write_u8(memory, address, bytes[1])
                   [] width = 2 -> write_u16(memory, address, bytes[1] + 256 * bytes[2])
                   [] width = 4 -> write_u32(memory, address, from_le_bytes(bytes))
       IN /\ memory' = w.mem
          /\ Return(Ret(CASE width = 1 -> "write_u8" [] width = 2 -> "write_u16"
                          [] width = 4 -> "write_u32",
                        w.res, address, width, bytes, <<>>))
    /\ UNCHANGED <<patch_history>>
    /\ UNCHANGED dbgvars_but_patches


(***************************************************************************)
(* Inputs of the calls                                                     *)
(***************************************************************************)
(***************************************************************************)
(* MemorySearch (debugger/search.rs)                                       *)
(***************************************************************************)
\* MemorySearch::search_bytes.  A SearchResult is [address, data].  The loop
\* runs i over 0..=data.len().saturating_sub(pattern.len()) and slices
\* data[i..i + pattern.len()], which panics when the slice ends beyond data.
search_bytes(m, pattern, start_address, end_address) ==
    IF pattern = <<>> THEN [res |-> "InvalidInput", val |-> <<>>]
    ELSE IF start_address >= end_address THEN [res |-> "InvalidInput", val |-> <<>>]
    ELSE LET searched(data) ==
                 LET last == Max(Len(data) - Len(pattern), 0)
                     RECURSIVE loop(_, _)
                     loop(i, results) ==
                         IF i > last THEN [res |-> "Ok", val |-> results]
                         ELSE IF i + Len(pattern) > Len(data)
                         THEN [res |-> "Panic", val |-> <<>>]
                         ELSE IF SubVec(data, i, Len(pattern)) = pattern
                         THEN loop(i + 1, Append(results, [address |-> start_address + i,
                                                           data |-> pattern]))
                         ELSE loop(i + 1, results)
                 IN loop(0, <<>>)
             read(data) == IF data.res # "Ok" THEN [res |-> data.res, val |-> <<>>]
                           ELSE searched(data.val)
         IN read(read_bytes(m, start_address, end_address - start_address))

\* u8::is_ascii_graphic() || u8::is_ascii_whitespace()
is_ascii_text(byte) == byte \in 33..126 \/ byte \in {9, 10, 12, 13, 32}

\* find_strings that keeps the run in progress across an invalid byte
find_strings_keeps_run(m, min_length, start_address, end_address) ==
    IF start_address >= end_address THEN [res |-> "InvalidInput", val |-> <<>>]
    ELSE LET scanned(data) ==
                 LET RECURSIVE loop(_, _, _, _)
                     \* string_start = -1 stands for None
                     loop(i, results, current_string, string_start) ==
                         IF i >= Len(data) THEN [res |-> "Ok", val |-> results]
                         ELSE IF data[i + 1] = 0
                         THEN loop(i + 1,
                                   IF Len(current_string) >= min_length /\ string_start # 0 - 1
                                   THEN Append(results, [address |-> string_start,
                                                         data |-> current_string])
                                   ELSE results,
                                   <<>>, 0 - 1)
                         ELSE IF is_ascii_text(data[i + 1])
                         THEN loop(i + 1, results, Append(current_string, data[i + 1]),
                                   IF string_start = 0 - 1 THEN start_address + i
                                   ELSE string_start)
                         ELSE loop(i + 1, results, current_string, string_start)
                 IN loop(0, <<>>, <<>>, 0 - 1)
             read(data) == IF data.res # "Ok" THEN [res |-> data.res, val |-> <<>>]
                           ELSE scanned(data.val)
         IN read(read_bytes(m, start_address, end_address - start_address))

\* MemorySearch::find_strings
find_strings(m, min_length, start_address, end_address) ==
    IF start_address >= end_address THEN [res |-> "InvalidInput", val |-> <<>>]
    ELSE LET scanned(data) ==
                 LET RECURSIVE loop(_, _, _, _)
                     \* string_start = -1 stands for None
                     loop(i, results, current_string, string_start) ==
                         IF i >= Len(data) THEN [res |-> "Ok", val |-> results]
                         ELSE IF data[i + 1] = 0
                         THEN loop(i + 1,
                                   IF Len(current_string) >= min_length /\ string_start # 0 - 1
                                   THEN Append(results, [address |-> string_start,
                                                         data |-> current_string])
                                   ELSE results,
                                   <<>>, 0 - 1)
                         ELSE IF is_ascii_text(data[i + 1])
                         THEN loop(i + 1, results, Append(current_string, data[i + 1]),
                                   IF string_start = 0 - 1 THEN start_address + i
                                   ELSE string_start)
                         ELSE loop(i + 1, results, <<>>, 0 - 1)
                 IN loop(0, <<>>, <<>>, 0 - 1)
             read(data) == IF data.res # "Ok" THEN [res |-> data.res, val |-> <<>>]
                           ELSE scanned(data.val)
         IN read(read_bytes(m, start_address, end_address - start_address))

\* MemorySearch::search_bytes(&debugger.memory, pattern, start, end)
SearchBytes(pattern, start_address, end_address) ==
    /\ pc = "idle"
    /\ UNCHANGED <<calls, overflow_checks>>
    /\ LET returned(r) ==
               Return(Ret("search_bytes", r.res, start_address, end_address, pattern, r.val))
       IN returned(search_bytes(memory, pattern, start_address, end_address))
    /\ UNCHANGED <<memory, patch_history>>
    /\ UNCHANGED dbgvars_but_patches

\* MemorySearch::find_strings(&debugger.memory, min_length, start, end);
\* ret.bytes holds <<min_length>>
FindStrings(min_length, start_address, end_address) ==
    /\ pc = "idle"
    /\ UNCHANGED <<calls, overflow_checks>>
    /\ LET returned(r) ==
               Return(Ret("find_strings", r.res, start_address, end_address,
                          <<min_length>>, r.val))
       IN returned(find_strings(memory, min_length, start_address, end_address))
    /\ UNCHANGED <<memory, patch_history>>
    /\ UNCHANGED dbgvars_but_patches

(***************************************************************************)
(* Inputs of the calls                                                     *)
(***************************************************************************)
\* B8 42 00 00 00 F4   MOV EAX,0x42; HLT      (test_basic_execution)
ProgMovHlt == <<184, 66, 0, 0, 0, 244>>
\* CD 90 F4            INT 0x90; HLT
ProgInt == <<205, 144, 244>>
\* 90 EB FD            NOP; JMP -3 (back to the NOP)
ProgLoop == <<144, 235, 253>>
\* 40 01 00 F4         INC EAX; ADD [EAX],EAX; HLT
ProgIncAddHlt == <<64, 1, 0, 244>>
(***************************************************************************)
(* Specifications                                                          *)
(***************************************************************************)
\* Debugger::new(MemSize)
Init ==
    /\ cpu = CpuDefault
    /\ memory = MemoryNew(MemSize)
    /\ state = Ready
    /\ breakpoints = {}
    /\ max_instructions = 100000
    /\ instructions_executed = 0
    /\ total_instructions = 0
    /\ history = <<>>
    /\ patch_history = HistoryNew
    /\ initial_cpu = CpuDefault
    /\ initial_memory = raw(MemoryNew(MemSize))
    /\ pc = "idle"
    /\ run_frame = [run_n |-> FALSE, original_limit |-> 0, halted |-> FALSE]
    /\ ret = NoCall
    /\ prev = NoPrev
    /\ shadow = <<>>
    /\ shadow_peak = 0
    /\ calls = 0
    /\ saved = [some |-> FALSE, cpu |-> CpuDefault, memory |-> raw(MemoryNew(MemSize)),
                touched |-> FALSE]
    /\ overflow_checks \in BOOLEAN

\* Execution control: load a program, set the entry point and the breakpoints,
\* then step, step back and run.
NextExec ==
    \/ \E p \in {ProgMovHlt, ProgLoop} : LoadCode(0, p)
    \/ \E a \in {0, 1} : SetEntryPoint(a)
    \/ \E a \in {1, 5} : ToggleBreakpoint(a)
    \/ Step
    \/ Run
    \/ RunLoop
    \/ StepBack

SpecExec == Init /\ [][NextExec]_vars

\* The instruction ceiling: load a program, set the ceiling, then step and run.
NextLimit ==
    \/ \E p \in {ProgMovHlt, ProgInt, ProgLoop} : LoadCode(0, p)
    \/ \E c \in {0, 1, 2} : SetMaxInstructions(c)
    \/ \E c \in {0, 1, 2} : RunN(c)
    \/ Step
    \/ Run
    \/ RunLoop

SpecLimit == Init /\ [][NextLimit]_vars

\* The patch log: patch, undo and redo, with regions and permission
\* enforcement set through the public field memory.
NextPatch ==
    \/ \E a \in {0, 1, MemSize - 1}, b \in {<<144>>, <<244, 144>>} : Patch(a, b)
    \/ UndoPatch
    \/ RedoPatch
    \/ \E e \in BOOLEAN : SetEnforcePermissions(e)
    \/ \E r \in {[name |-> "code", start |-> 0, end |-> 1, permissions |-> rx],
                 [name |-> "data", start |-> 1, end |-> MemSize, permissions |-> rw],
                 [name |-> "guard", start |-> MemSize - 1, end |-> MemSize,
                  permissions |-> [read |-> FALSE, write |-> FALSE, execute |-> FALSE]]} :
          AddRegion(r)

SpecPatch == Init /\ [][NextPatch]_vars


\* Reset: save the initial state, load code and data, move the entry point and
\* the stack pointer, step, run and patch, then reset.  A patch counts against
\* the bound on the configuration calls here.
NextReset ==
    \/ SaveInitialState
    \/ Reset
    \/ LoadCode(0, ProgIncAddHlt)
    \/ LoadData(2, <<1, 2>>)
    \/ SetEntryPoint(1)
    \/ SetStackPointer(MemSize)
    \/ Step
    \/ Run
    \/ RunLoop
    \/ calls < MaxSetup /\ Patch(0, <<144>>)
    \/ UndoPatch
    \/ RedoPatch

SpecReset == Init /\ [][NextReset]_vars


\* The state a step leaves: a NOP before a HLT, an INT 3 (both encodings) or
\* another interrupt, with breakpoints and a ceiling.
NextState ==
    \/ \E p \in {<<144, 144, 244>>, <<144, 204>>, <<144, 205, 3>>, <<144, 205, 144>>} :
          total_instructions = 0 /\ LoadCode(0, p)
    \/ \E a \in {1, 2} : ToggleBreakpoint(a)
    \/ \E c \in {1, 2} : SetMaxInstructions(c)
    \/ Step
    \/ Run
    \/ RunLoop

SpecState == Init /\ [][NextState]_vars


\* Stepping back over an instruction that wrote memory (INC EAX; ADD [EAX], AL
\* adds 1 to the byte at 1), with patches on the undo stack and a breakpoint.
NextBack ==
    \/ total_instructions = 0 /\ LoadCode(0, ProgIncAddHlt)
    \/ \E a \in {3, 5} : calls < MaxSetup /\ Patch(a, <<144>>)
    \/ UndoPatch
    \/ ToggleBreakpoint(1)
    \/ Step
    \/ StepBack

SpecBack == Init /\ [][NextBack]_vars


\* The stack: PUSH r; POP r' for pairs of registers that include ESP on either
\* side; a RET at 0 called by the CALL rel32 at 1, a RET 4 at 0 called by the
\* CALL rel32 at 3, and CALL EAX; with the stack pointer inside the memory, at
\* its end, and where the decrement wraps.  A PUSH that fails has already moved ESP, so the stepping
\* stops once ESP has left the low 64K.
NextStack ==
    \/ \E a \in {2, 12, MemSize} : total_instructions = 0 /\ SetStackPointer(a)
    \/ \E v \in {Word(16), W(57005, 48879)} : SetRegister("eax", v)
    \/ \E p \in {<<80, 91>>, <<84, 88>>, <<80, 92>>, <<84, 92>>,
                  <<195, 232, 250, 255, 255, 255>>, <<194, 4, 0, 232, 248, 255, 255, 255>>,
                  <<255, 208>>} :
          total_instructions = 0 /\ LoadCode(0, p \o <<244>>)
    \/ \E a \in {1, 3} : total_instructions = 0 /\ SetEntryPoint(a)
    \/ cpu.regs.esp.hi = 0 /\ Step

SpecStack == Init /\ [][NextStack]_vars


\* The conditional jumps: every Jcc rel8 (JP and JNP, which the executor has
\* no arm for, among them), forwards over a HLT and backwards onto itself,
\* under every combination of CF, ZF, SF and OF, set before the code is loaded.
NextJcc ==
    \/ \E cf \in BOOLEAN, zf \in BOOLEAN, sf \in BOOLEAN, of \in BOOLEAN :
          calls = 0 /\ SetEflags([EflagsDefault EXCEPT !.cf = cf, !.zf = zf, !.sf = sf, !.of = of])
    \/ \E op \in 112..127, d \in {1, 254} :
          calls <= 1 /\ total_instructions = 0 /\ LoadCode(0, <<op, d, 244, 244>>)
    \/ Step

SpecJcc == Init /\ [][NextJcc]_vars


\* The memory alone: byte-sequence writes and reads, with regions (among them
\* a guard region that allows nothing and overlaps the two others) and
\* permission enforcement.
NextMem ==
    \/ \E a \in {0, 1, MemSize - 2, MemSize - 1, MemSize}, b \in {<<>>, <<7>>, <<8, 9>>} : WriteBytes(a, b)
    \/ \E a \in {0, 1, MemSize - 2, MemSize - 1, MemSize}, n \in {0, 1, 2, UsizeMax} : ReadBytes(a, n)
    \/ \E w \in {1, 2, 4}, a \in {0, 1, MemSize - 2, MemSize - 1, MemSize} : WriteUint(w, a, SubVec(<<3, 4, 5, 6>>, 0, w))
    \/ \E w \in {1, 2, 4}, a \in {0, 1, MemSize - 2, MemSize - 1, MemSize} : ReadUint(w, a)
    \/ \E e \in BOOLEAN : SetEnforcePermissions(e)
    \/ \E r \in {[name |-> "code", start |-> 0, end |-> 1, permissions |-> rx], [name |-> "data", start |-> 1, end |-> MemSize, permissions |-> rw]} \cup {[name |-> "guard", start |-> 0, end |-> 2,
                                permissions |-> [read |-> FALSE, write |-> FALSE,
                                                 execute |-> FALSE]]} :
          AddRegion(r)

SpecMem == Init /\ [][NextMem]_vars


\* Instructions the executor rejects: load NOP; STD; NOP (a mnemonic without an
\* arm in execute_one) or NOP; FF /7 (an invalid encoding), then step and run.
NextFault ==
    \/ \E p \in {<<144, 253, 144>>, <<144, 255, 248>>} : LoadCode(0, p)
    \/ \E a \in {0, 1} : SetEntryPoint(a)
    \/ Step
    \/ Run
    \/ RunLoop
    \/ StepBack

SpecFault == Init /\ [][NextFault]_vars


\* The search engine: write bytes into the memory (90 90 90, "AB", 01 "B "
\* and "A" DEL "B"; the byte after each is 0), then search a byte pattern or
\* the strings of a range.
NextSearch ==
    \/ \E a \in {0, 4}, b \in {<<144, 144, 144>>, <<65, 66>>, <<1, 66, 32>>, <<65, 127, 66>>} :
          WriteBytes(a, b)
    \/ \E p \in {<<>>, <<144, 144>>, <<65>>}, a \in 0..1,
          e \in {0, 1, 2, 3, 7, 8, MemSize + 1} :
          SearchBytes(p, a, e)
    \/ \E n \in {0, 2, 3}, a \in 0..1, e \in {0, 1, 2, 3, 7, 8, MemSize + 1} :
          FindStrings(n, a, e)

SpecSearch == Init /\ [][NextSearch]_vars


\* The arithmetic and logic instructions: set the operands (1, 5, 16,
\* 0x7FFFFFFF, 0x80000000, 0xFFFFFFFF, or 0 as constructed) and the flags (the
\* carry alone, every status flag, or none as constructed), load one
\* instruction on EAX and ECX (before anything is executed) and step it:
\* ADD 01 C8, SUB 29 C8, CMP 39 C8, AND 21 C8, OR 09 C8, XOR 31 C8, TEST 85 C8,
\* INC 40, DEC 48, SHL D3 E0, SHR D3 E8, SAR D3 F8 (the shifts by CL),
\* CMP [ECX], EAX 39 01, TEST [ECX], EAX 85 01,
\* MUL ECX F7 E1, MUL dword [ECX] F7 21, IMUL ECX F7 E9, IMUL EAX, ECX 0F AF C1,
\* IMUL EAX, ECX, -1 6B C1 FF, IMUL EAX, ECX, 0x10000 69 C1 00 00 01 00, each
\* followed by HLT (F4).
NextAlu ==
    \/ \E r \in {"eax", "ecx"},
          v \in {Word(1), Word(5), Word(16), W(2^15 - 1, 2^16 - 1), W(2^15, 0),
                 W(2^16 - 1, 2^16 - 1)} :
          SetRegister(r, v)
    \/ \E f \in {[EflagsDefault EXCEPT !.cf = TRUE],
                  [cf |-> TRUE, zf |-> TRUE, sf |-> TRUE, of |-> TRUE, pf |-> TRUE,
                   af |-> TRUE, df |-> FALSE]} :
          SetEflags(f)
    \/ \E p \in {<<1, 200>>, <<41, 200>>, <<57, 200>>, <<33, 200>>, <<9, 200>>, <<49, 200>>,
                  <<133, 200>>, <<64>>, <<72>>, <<211, 224>>, <<211, 232>>, <<211, 248>>,
                  <<57, 1>>, <<133, 1>>,
                  <<247, 225>>, <<247, 33>>, <<247, 233>>, <<15, 175, 193>>,
                  <<107, 193, 255>>, <<105, 193, 0, 0, 1, 0>>} :
          total_instructions = 0 /\ LoadCode(0, p \o <<244>>)
    \/ Step

SpecAlu == Init /\ [][NextAlu]_vars

\* Loading under permissions: regions and enforcement are set on the public
\* field memory, then code and data are loaded inside, across and past the end
\* of memory.
NextLoad ==
    \/ \E e \in BOOLEAN : SetEnforcePermissions(e)
    \/ \E r \in {[name |-> "guard", start |-> 0, end |-> 2,
                  permissions |-> [read |-> FALSE, write |-> FALSE, execute |-> FALSE]],
                 [name |-> "code", start |-> 0, end |-> MemSize, permissions |-> rx]} :
          AddRegion(r)
    \/ \E a \in {0, 1, MemSize - 1, MemSize, MemSize + 1}, b \in {<<>>, <<7>>, <<8, 9>>} :
          LoadCode(a, b)
    \/ \E a \in {0, 1, MemSize - 1, MemSize, MemSize + 1}, b \in {<<>>, <<7>>, <<8, 9>>} :
          LoadData(a, b)

SpecLoad == Init /\ [][NextLoad]_vars


\* A session: INC EAX; ADD [EAX],EAX; HLT is loaded, the state is saved, a
\* breakpoint, the ceiling, a region or the enforcement is set, the program is
\* stepped, run, run for one or two instructions and stepped back, and the
\* debugger is reset.
NextSession ==
    \/ calls = 0 /\ LoadCode(0, ProgIncAddHlt)
    \/ SaveInitialState
    \/ Reset
    \/ calls < MaxSetup - 1 /\ total_instructions = 0 /\ ToggleBreakpoint(1)
    \/ calls < MaxSetup - 1 /\ total_instructions = 0 /\ SetMaxInstructions(2)
    \/ calls < MaxSetup - 1 /\ total_instructions = 0 /\ SetEnforcePermissions(TRUE)
    \/ calls < MaxSetup - 1 /\ total_instructions = 0 /\ AddRegion([name |-> "code", start |-> 0, end |-> 4, permissions |-> rx])
    \/ \E c \in {1, 2} : RunN(c)
    \/ Step
    \/ Run
    \/ RunLoop
    \/ StepBack

SpecSession == Init /\ [][NextSession]_vars

\* Replay: INC EAX; ADD [EAX],EAX; HLT is loaded, or a breakpoint is set after
\* the first instruction of the zeroed memory (00 00 is ADD [EAX],AL), the
\* state is saved, the program is stepped, run and stepped back and, once a
\* state is saved, patched (the HLT made a NOP) with patches undone and
\* redone, and the debugger is reset.
NextReplay ==
    \/ calls = 0 /\ LoadCode(0, ProgIncAddHlt)
    \/ calls = 0 /\ ToggleBreakpoint(2)
    \/ SaveInitialState
    \/ Reset
    \/ Step
    \/ Run
    \/ RunLoop
    \/ StepBack
    \/ saved.some /\ calls < MaxSetup /\ Patch(3, <<144>>)
    \/ saved.some /\ UndoPatch
    \/ saved.some /\ RedoPatch

SpecReplay == Init /\ [][NextReplay]_vars

(***************************************************************************)
(* Properties                                                              *)
(***************************************************************************)
\* bytes [address, address + count) of a raw buffer
RawSlice(buf, address, count) == [i \in 1..count |-> buf[address + i - 1]]

\* The last call was a patch(a, new) with a + len(new) <= size.
PatchInBounds == ret.op = "patch" /\ ret.addr + Len(ret.bytes) <= size(memory)

\* C1: for every patch(a, new) that returned Ok, an undo_patch() issued right
\* after it succeeds and leaves memory[a .. a+len(new)) equal to its content
\* immediately before the patch, and a redo_patch() issued right after that
\* undo succeeds and makes memory[a .. a+len(new)) equal to new again.
C1_UndoRedoRoundTrip ==
    [][/\ (ret.op = "patch" /\ ret.res = "Ok" /\ ret'.op = "undo_patch")
          => /\ ret'.res = "Ok"
             /\ RawSlice(raw(memory'), ret.addr, Len(ret.bytes))
                  = RawSlice(ret.pre, ret.addr, Len(ret.bytes))
       /\ (ret.op = "undo_patch" /\ prev.op = "patch" /\ prev.res = "Ok"
           /\ ret'.op = "redo_patch")
          => /\ ret'.res = "Ok"
             /\ RawSlice(raw(memory'), prev.addr, Len(prev.bytes)) = prev.bytes]_vars

\* C1 witness: an undo_patch() right after a successful patch changed memory,
\* and the redo stack holds the patch for a redo.
C1_Witness ==
    /\ ret.op = "undo_patch" /\ ret.res = "Ok"
    /\ prev.op = "patch" /\ prev.res = "Ok"
    /\ raw(memory) # ret.pre
    /\ patch_history.redo_stack # <<>>

\* C1 as stated: for every patch(a, new) with a + len(new) <= size, whatever
\* it returned, the undo_patch() right after it leaves memory[a .. a+len(new))
\* as it was before the patch.
C1_AsStated ==
    [][(PatchInBounds /\ ret'.op = "undo_patch")
       => RawSlice(raw(memory'), ret.addr, Len(ret.bytes))
            = RawSlice(ret.pre, ret.addr, Len(ret.bytes))]_vars

\* C2: after every successful patch() the redo stack is empty, and a
\* redo_patch() issued directly after it fails with NothingToRedo and leaves
\* memory unchanged.
C2_PatchClearsRedo ==
    /\ (ret.op = "patch" /\ ret.res = "Ok") => patch_history.redo_stack = <<>>
    /\ (ret.op = "redo_patch" /\ prev.op = "patch" /\ prev.res = "Ok")
       => ret.res = "NothingToRedo" /\ raw(memory) = ret.pre

\* C2 witness: a redo_patch() directly after a successful patch, with an
\* earlier patch still on the undo stack.
C2_Witness ==
    /\ ret.op = "redo_patch" /\ prev.op = "patch" /\ prev.res = "Ok"
    /\ Len(patch_history.undo_stack) = patch_max_history

\* C3: shadow holds the pre-step CPU states S0 .. S(n-1) of the successful
\* steps not yet unwound, counted from the last time it was empty, and
\* shadow_peak the largest n since then.  While n never went above the trace
\* capacity, a step_back() returns the trace entry of the latest state of
\* shadow and sets the CPU to exactly that state; with nothing left to unwind
\* it returns no entry and changes nothing.
C3_StepBackUnwinds ==
    [][(StepBack /\ shadow_peak <= max_history)
       => IF shadow # <<>>
          THEN /\ Len(ret'.entry) = 1
               /\ ret'.entry[1].cpu_snapshot = Last(shadow)
               /\ ret'.entry[1].eip = Last(shadow).eip
               /\ cpu' = Last(shadow)
          ELSE /\ ret'.entry = <<>>
               /\ UNCHANGED <<cpu, memory, state, history, instructions_executed,
                              total_instructions, breakpoints, max_instructions>>]_vars

\* C3 witness: after as many steps as the trace holds, the last of the
\* step_back() calls that unwound them all returned the entry of S0 and set
\* the CPU to it.
C3_Witness ==
    /\ ret.op = "step_back"
    /\ ret.entry # <<>>
    /\ Len(history) = max_history - 2
    /\ total_instructions = max_history
    /\ cpu = ret.entry[1].cpu_snapshot
    /\ cpu.eip # Word(0)

\* C4 as stated: run() and run_n(c) execute a number of instructions bounded
\* by the ceiling: the loop of run() goes round again only while fewer
\* instructions than the ceiling were executed in this run (or none yet).
C4_RunBoundedByCeiling ==
    pc = "run" => (instructions_executed = 0 \/ instructions_executed < max_instructions)

\* C5 as stated: whenever run() or run_n(c) returns LimitExceeded(count),
\* count equals the ceiling in force for that run.
C5_CountEqualsCeiling ==
    [][(RunLoop /\ pc' = "idle" /\ ret'.res = "LimitExceeded")
       => ret'.count = max_instructions]_vars

\* C6: if the debugger state is Halted or LimitExceeded, step() fails with
\* AlreadyHalted and leaves the CPU, memory, both instruction counters, the
\* trace and the debugger state unchanged.
C6_StepAlreadyHalted ==
    [][(Step /\ state.tag \in {"Halted", "LimitExceeded"})
       => /\ ret'.res = "AlreadyHalted"
          /\ UNCHANGED <<cpu, memory, instructions_executed, total_instructions,
                         history, state>>]_vars

\* C6 witness: a step() on a debugger that a run left in LimitExceeded, with
\* instructions executed and traced, failed with AlreadyHalted.
C6_Witness ==
    /\ ret.op = "step" /\ ret.res = "AlreadyHalted"
    /\ state.tag = "LimitExceeded"
    /\ instructions_executed = 2
    /\ history # <<>>

\* the bytes at EIP decode to a HLT
AtHlt ==
    /\ Fetch(cpu, memory).res = "Ok"
    /\ Decode(Fetch(cpu, memory).val, cpu.eip).mnemonic = "Hlt"

\* C8 as stated: when run() returns Breakpoint(a), the state is
\* AtBreakpoint(a), EIP is a and cpu.halted is false.
C8_BreakpointStop ==
    (pc = "idle" /\ ret.op = "run" /\ ret.res = "Breakpoint")
    => /\ state = AtBreakpoint(cpu.eip)
       /\ ret.addr = usize(cpu.eip)
       /\ ~cpu.halted

\* C9: when execution reaches a HLT, step() reports state Halted and run()
\* returns Halted, cpu.halted is true afterwards, and the registers, EIP, flags
\* and memory left by the instructions executed before the HLT are retained;
\* MOV EAX,0x42 at 0 followed by HLT ends Halted with EAX = 0x42.
C9_HltHalts ==
    [][/\ ((Step \/ RunLoop) /\ ~is_terminal(state) /\ AtHlt)
          => /\ state' = Halted
             /\ cpu'.halted
             /\ cpu'.regs = cpu.regs /\ cpu'.eip = cpu.eip /\ cpu'.eflags = cpu.eflags
             /\ memory' = memory
             /\ ret'.res = IF pc = "run" THEN "Halted" ELSE "Ok"
             /\ pc' = "idle"
       /\ ((Step \/ RunLoop) /\ ~is_terminal(state) /\ AtHlt
           /\ history # <<>> /\ Last(history).eip = Word(0)
           /\ Last(history).instruction_text = "Mov"
           /\ RawSlice(raw(memory), 0, 6) = ProgMovHlt)
          => cpu'.regs.eax = Word(66)]_vars

\* C9 witness: run() from EIP 0 over MOV EAX,0x42; HLT returned Halted with
\* EAX = 0x42 and the CPU halted at the HLT.
C9_Witness ==
    /\ pc = "idle" /\ ret.op = "run" /\ ret.res = "Halted"
    /\ state = Halted /\ cpu.halted
    /\ cpu.regs.eax = Word(66) /\ cpu.eip = Word(5)
    /\ Len(history) = 2 /\ history[1].eip = Word(0)

\* What every reset() leaves behind, whatever came before it.
ResetClears ==
    /\ history' = <<>>
    /\ patch_history'.undo_stack = <<>> /\ patch_history'.redo_stack = <<>>
    /\ state' = Ready

\* C7: after reset() the CPU and every memory byte equal the stored snapshot:
\* the values captured by the most recent save_initial_state() when no
\* successful load_code/load_data and no set_entry_point/set_stack_pointer
\* followed it; the trace and both patch stacks are empty and the state is
\* Ready.  step, run, patch, undo and redo between the two do not matter.
C7_ResetRestores ==
    [][Reset => /\ cpu' = initial_cpu /\ raw(memory') = initial_memory
                /\ ResetClears
                /\ (saved.some /\ ~saved.touched)
                   => cpu' = saved.cpu /\ raw(memory') = saved.memory]_vars

\* C7 witness: a reset() brought back the CPU and the memory that a
\* save_initial_state() captured, after steps and a patch had changed both.
C7_Witness ==
    /\ ret.op = "reset"
    /\ saved.some /\ ~saved.touched
    /\ cpu = saved.cpu /\ raw(memory) = saved.memory
    /\ ret.pre # saved.memory
    /\ total_instructions > 0
    /\ prev.op = "patch" /\ prev.res = "Ok"

\* C7 as stated: after reset() the CPU and every memory byte equal what the
\* most recent save_initial_state() captured, whatever was called in between.
C7_AsStated ==
    [][(Reset /\ saved.some)
       => cpu' = saved.cpu /\ raw(memory') = saved.memory /\ ResetClears]_vars

\* C10: with permission enforcement disabled, write_bytes(a, data) with
\* a + len(data) <= size succeeds and leaves every byte outside [a, a+len(data))
\* as it was, and a read_bytes(a, len(data)) that follows it returns exactly
\* data.
C10_WriteReadRoundTrip ==
    /\ (ret.op = "write_bytes" /\ ~memory.enforce_permissions
        /\ ret.addr + Len(ret.bytes) <= size(memory))
       => /\ ret.res = "Ok"
          /\ \A i \in 0..(size(memory) - 1) :
                (i < ret.addr \/ i >= ret.addr + Len(ret.bytes))
                => raw(memory)[i] = ret.pre[i]
    /\ (ret.op = "read_bytes" /\ prev.op = "write_bytes" /\ ~memory.enforce_permissions
        /\ prev.addr + Len(prev.bytes) <= size(memory)
        /\ ret.addr = prev.addr /\ ret.count = Len(prev.bytes))
       => ret.res = "Ok" /\ ret.bytes = prev.bytes

\* C10 witness: two bytes written over the last two bytes of a memory that
\* already held other data, and read back.
C10_Witness ==
    /\ ret.op = "read_bytes" /\ prev.op = "write_bytes"
    /\ ~memory.enforce_permissions
    /\ ret.addr = prev.addr /\ ret.addr = size(memory) - 2
    /\ Len(prev.bytes) = 2 /\ ret.bytes = prev.bytes
    /\ raw(memory)[0] # 0

\* The length n of the access that the last call made.
AccessLen == IF ret.op = "write_bytes" THEN Len(ret.bytes) ELSE ret.count

\* The checked accesses of a Memory.
Accesses ==
    {"read_u8", "read_u16", "read_u32", "read_bytes",
     "write_u8", "write_u16", "write_u32", "write_bytes"}

\* C11: every checked access at address a of length n with a + n > size fails
\* with OutOfBounds and leaves every memory byte unchanged (a length kept as a
\* negative number is one above usize::MAX + that number, far beyond size).
C11_OutOfBoundsFails ==
    (ret.op \in Accesses /\ (AccessLen < 0 \/ ret.addr + AccessLen > size(memory)))
    => ret.res = "OutOfBounds" /\ raw(memory) = ret.pre

\* The first region in insertion order that contains the address of the last
\* access lacks the permission the access needs (read or write).
FirstRegionForbids ==
    LET r == get_region(memory, ret.addr)
    IN /\ r # 0
       /\ IF ret.op \in {"read_u8", "read_u16", "read_u32", "read_bytes"}
          THEN ~memory.regions[r].permissions.read
          ELSE ~memory.regions[r].permissions.write

\* C12: with enforcement enabled a checked access is decided by the first
\* region in insertion order containing its address: in bounds and lacking the
\* permission it fails with AccessViolation and memory is unchanged; out of
\* range it reports OutOfBounds even though the permission is missing too.
\* With enforcement disabled no access fails with AccessViolation.
C12_PermissionOrder ==
    ret.op \in Accesses
    => /\ (memory.enforce_permissions /\ FirstRegionForbids)
          => /\ raw(memory) = ret.pre
             /\ ret.res = IF AccessLen < 0 \/ ret.addr + AccessLen > size(memory)
                          THEN "OutOfBounds" ELSE "AccessViolation"
       /\ ~memory.enforce_permissions => ret.res # "AccessViolation"

\* The step in progress executes the instruction whose bytes are `code`.
Executes(code) ==
    /\ total_instructions' = total_instructions + 1
    /\ usize(cpu.eip) + Len(code) <= MemSize
    /\ RawSlice(raw(memory), usize(cpu.eip), Len(code)) = code

\* x + k * y for k = 1 or -1, computed over the integers: the sum modulo 2^32,
\* whether the unsigned sum leaves 0..2^32-1 and whether the signed sum leaves
\* -2^31..2^31-1
Exact(x, y, k) ==
    LET signed(h) == IF h >= 2^15 THEN h - 2^16 ELSE h
        lo == x.lo + k * y.lo
        uh == x.hi + k * y.hi + lo \div (2^16)
        sh == signed(x.hi) + k * signed(y.hi) + lo \div (2^16)
    IN [result |-> W(uh % (2^16), lo % (2^16)),
        carry |-> uh \notin 0..(2^16 - 1),
        overflow |-> sh \notin (0 - 2^15)..(2^15 - 1)]

\* C13: for all 32-bit operands x and y, ADD leaves (x+y) mod 2^32 with CF iff
\* x+y >= 2^32 and OF iff the signed sum is out of range; SUB and CMP compute
\* (x-y) mod 2^32 with CF iff x < y unsigned and OF iff the signed difference is
\* out of range (SUB stores it, CMP stores nothing); in all three ZF iff the
\* result is 0 and SF iff its bit 31 is set.
C13_AddSubCmpFlags ==
    [][\A code \in {<<1, 200>>, <<41, 200>>, <<57, 200>>} :
          Executes(code) =>
              LET e == Exact(cpu.regs.eax, cpu.regs.ecx, IF code[1] = 1 THEN 1 ELSE 0 - 1)
              IN /\ cpu'.regs.eax = IF code[1] = 57 THEN cpu.regs.eax ELSE e.result
                 /\ cpu'.eflags.cf = e.carry
                 /\ cpu'.eflags.of = e.overflow
                 /\ cpu'.eflags.zf = (e.result = Word(0))
                 /\ cpu'.eflags.sf = (Bit(e.result, 31) = 1)]_vars

\* SUB EAX,ECX with EAX = 0 and ECX = 1 was stepped: the result is 0xFFFFFFFF
\* with CF and SF set.
C13_Witness ==
    /\ ret.op = "step" /\ ret.res = "Ok"
    /\ total_instructions = 1
    /\ RawSlice(raw(memory), 0, 2) = <<41, 200>>
    /\ cpu.eip = Word(2)
    /\ cpu.regs.ecx = Word(1)
    /\ cpu.regs.eax = W(2^16 - 1, 2^16 - 1)
    /\ cpu.eflags.cf /\ cpu.eflags.sf /\ ~cpu.eflags.zf

\* C14: INC and DEC leave CF as it was, for every operand and prior CF; INC
\* sets OF iff the operand was 0x7FFFFFFF, DEC sets OF iff the operand was
\* 0x80000000, and each clears OF otherwise.
C14_IncDecKeepCarry ==
    [][\A code \in {<<64>>, <<72>>} :
          Executes(code) =>
              /\ cpu'.eflags.cf = cpu.eflags.cf
              /\ cpu'.eflags.of = (cpu.regs.eax = IF code = <<64>> THEN W(2^15 - 1, 2^16 - 1)
                                                                ELSE W(2^15, 0))]_vars

\* INC EAX was stepped with EAX = 0x7FFFFFFF and CF set: OF is set, CF still is.
C14_Witness ==
    /\ ret.op = "step" /\ ret.res = "Ok"
    /\ total_instructions = 1
    /\ RawSlice(raw(memory), 0, 1) = <<64>>
    /\ shadow[1].regs.eax = W(2^15 - 1, 2^16 - 1)
    /\ shadow[1].eflags.cf
    /\ cpu.regs.eax = W(2^15, 0)
    /\ cpu.eflags.of /\ cpu.eflags.cf

\* C15: after AND, OR, XOR or TEST, CF and OF are false for every pair of
\* operands and every prior flag state, ZF is set iff the result is 0, SF iff
\* bit 31 of the result is set and PF iff the low byte of the result has an
\* even number of 1 bits.  The result is taken bit by bit from the operands.
C15_LogicalFlags ==
    [][\A code \in {<<33, 200>>, <<9, 200>>, <<49, 200>>, <<133, 200>>} :
          Executes(code) =>
              LET x(i) == Bit(cpu.regs.eax, i)
                  y(i) == Bit(cpu.regs.ecx, i)
                  bit(i) == CASE code[1] = 9 -> IF x(i) + y(i) > 0 THEN 1 ELSE 0
                              [] code[1] = 49 -> IF x(i) # y(i) THEN 1 ELSE 0
                              [] OTHER -> IF x(i) + y(i) = 2 THEN 1 ELSE 0
              IN /\ ~cpu'.eflags.cf
                 /\ ~cpu'.eflags.of
                 /\ cpu'.eflags.zf = (\A i \in 0..31 : bit(i) = 0)
                 /\ cpu'.eflags.sf = (bit(31) = 1)
                 /\ cpu'.eflags.pf = (Cardinality({i \in 0..7 : bit(i) = 1}) % 2 = 0)
                 /\ \A i \in 0..31 :
                        Bit(cpu'.regs.eax, i) = IF code[1] = 133 THEN x(i) ELSE bit(i)]_vars

\* XOR EAX,ECX was stepped with EAX = ECX = 0xFFFFFFFF and every status flag
\* set: the result is 0, ZF and PF are set, CF, OF and SF are clear.
C15_Witness ==
    /\ ret.op = "step" /\ ret.res = "Ok"
    /\ total_instructions = 1
    /\ RawSlice(raw(memory), 0, 2) = <<49, 200>>
    /\ shadow[1].regs.eax = W(2^16 - 1, 2^16 - 1)
    /\ shadow[1].eflags.cf /\ shadow[1].eflags.of /\ shadow[1].eflags.sf
    /\ cpu.regs.ecx = W(2^16 - 1, 2^16 - 1)
    /\ cpu.regs.eax = Word(0)
    /\ cpu.eflags.zf /\ cpu.eflags.pf
    /\ ~cpu.eflags.cf /\ ~cpu.eflags.of /\ ~cpu.eflags.sf

\* C16: after SHL, SHR or SAR with a masked count c in 1..31, CF is the last
\* bit shifted out of the operand: bit 32-c of the original value for SHL, bit
\* c-1 for SHR and SAR.
C16_ShiftCarry ==
    [][\A code \in {<<211, 224>>, <<211, 232>>, <<211, 248>>} :
          (Executes(code) /\ cpu.regs.ecx.lo % 32 # 0) =>
              LET c == cpu.regs.ecx.lo % 32
              IN cpu'.eflags.cf = (Bit(cpu.regs.eax, IF code[2] = 224 THEN 32 - c ELSE c - 1) = 1)]_vars

\* the addresses of the results of the last search, in the order returned
Found == [i \in 1..Len(ret.entry) |-> ret.entry[i].address]

\* C17: search_bytes(pattern, start, end) with a non-empty pattern and
\* start < end (here: a range inside the memory, permissions not enforced)
\* returns one result for every offset in [start, end - len(pattern)] at which
\* the memory bytes equal the pattern, and no other, in strictly ascending
\* address order.
C17_SearchBytesAllMatches ==
    (/\ ret.op = "search_bytes"
     /\ ret.bytes # <<>>
     /\ ret.addr < ret.count
     /\ ret.count <= size(memory))
    => /\ ret.res = "Ok"
       /\ \A i \in 1..Len(Found) : \A j \in 1..Len(Found) : i < j => Found[i] < Found[j]
       /\ {Found[i] : i \in 1..Len(Found)}
            = {a \in ret.addr..(ret.count - Len(ret.bytes)) :
                   RawSlice(raw(memory), a, Len(ret.bytes)) = ret.bytes}
       /\ \A i \in 1..Len(Found) : ret.entry[i].data = ret.bytes

\* C18: find_strings(min_length, start, end) (here: a range inside the memory,
\* permissions not enforced) returns exactly the runs of printable-ASCII-or-
\* whitespace bytes of the range that are followed by a null byte inside the
\* range and are at least min_length long, each once, at the address of its
\* first byte and with its bytes as data.  A run starts at the start of the
\* range or after a byte that is not printable (a null or an invalid byte), so
\* an invalid byte discards what came before it, and a run that the end of the
\* range cuts off is not reported.
C18_FindStringsRuns ==
    (/\ ret.op = "find_strings"
     /\ ret.addr < ret.count
     /\ ret.count <= size(memory))
    => LET byte(a) == raw(memory)[a]
           runs == {r \in [address : ret.addr..(ret.count - 1), len : 1..(ret.count - ret.addr)] :
                       /\ r.address + r.len < ret.count
                       /\ \A a \in r.address..(r.address + r.len - 1) : is_ascii_text(byte(a))
                       /\ byte(r.address + r.len) = 0
                       /\ (r.address = ret.addr \/ ~is_ascii_text(byte(r.address - 1)))
                       /\ r.len >= ret.bytes[1]}
       IN /\ ret.res = "Ok"
          /\ {ret.entry[i] : i \in 1..Len(ret.entry)}
               = {[address |-> r.address, data |-> RawSlice(raw(memory), r.address, r.len)] :
                      r \in runs}
          /\ Len(ret.entry) = Cardinality(runs)

\* find_strings(2, 0, 7) over 01 "B " 00 "AB" 00: the run "B " after the invalid
\* byte and the run "AB" are reported.
C18_Witness ==
    /\ ret.op = "find_strings" /\ ret.res = "Ok"
    /\ ret.bytes = <<2>> /\ ret.addr = 0 /\ ret.count = 7
    /\ RawSlice(raw(memory), 0, 7) = <<1, 66, 32, 0, 65, 66, 0>>
    /\ ret.entry = <<[address |-> 1, data |-> <<66, 32>>], [address |-> 4, data |-> <<65, 66>>]>>

\* The bytes at EIP are STD (FD), for which execute_one has no arm, or the
\* invalid encoding FF /7, and the debugger is in a state in which step()
\* reaches the executor.
RejectedAtEip ==
    /\ ~is_terminal(state)
    /\ usize(cpu.eip) + 15 <= MemSize
    /\ \/ raw(memory)[usize(cpu.eip)] = 253
       \/ RawSlice(raw(memory), usize(cpu.eip), 2) = <<255, 248>>

\* C19: when the bytes at EIP decode to an invalid instruction or to a mnemonic
\* outside the supported set, step() fails with the executor's
\* UnsupportedInstruction error and the instruction is not skipped: the CPU
\* (EIP included), the memory, both instruction counters and the trace keep
\* their values; an iteration of run()'s loop that meets such bytes ends the
\* run with that error, with EIP, total_instructions and the trace unchanged.
C19_UnsupportedNotSkipped ==
    [][RejectedAtEip =>
          /\ (pc = "idle" /\ pc' = "idle" /\ ret'.op = "step") =>
                 /\ ret'.res = "UnsupportedInstruction"
                 /\ cpu' = cpu /\ memory' = memory
                 /\ instructions_executed' = instructions_executed
                 /\ total_instructions' = total_instructions
                 /\ history' = history
          /\ pc = "run" =>
                 /\ pc' = "idle"
                 /\ ret'.op = "run" /\ ret'.res = "UnsupportedInstruction"
                 /\ cpu' = cpu /\ memory' = memory
                 /\ instructions_executed' = instructions_executed
                 /\ total_instructions' = total_instructions
                 /\ history' = history]_vars

\* run() executed the NOP at 0 and returned the error of the FF /7 at 1, where
\* EIP still is.
C19_Witness ==
    /\ ret.op = "run" /\ ret.res = "UnsupportedInstruction"
    /\ pc = "idle"
    /\ RawSlice(raw(memory), 0, 3) = <<144, 255, 248>>
    /\ cpu.eip = Word(1)
    /\ total_instructions = 1 /\ instructions_executed = 1
    /\ Len(history) = 1

\* C20: undo_patch() on an empty undo stack fails with NothingToUndo and
\* redo_patch() on an empty redo stack fails with NothingToRedo; either call
\* leaves the memory and both stacks as they were.
C20_NothingToUndoRedo ==
    [][/\ (ret'.op = "undo_patch" /\ patch_history.undo_stack = <<>>) =>
              /\ ret'.res = "NothingToUndo"
              /\ memory' = memory
              /\ patch_history' = patch_history
       /\ (ret'.op = "redo_patch" /\ patch_history.redo_stack = <<>>) =>
              /\ ret'.res = "NothingToRedo"
              /\ memory' = memory
              /\ patch_history' = patch_history]_vars

\* undo_patch() failed with NothingToUndo while a patch was waiting on the redo
\* stack, and the patch is still there.
C20_Witness ==
    /\ ret.op = "undo_patch" /\ ret.res = "NothingToUndo"
    /\ patch_history.undo_stack = <<>>
    /\ patch_history.redo_stack # <<>>


\* What the instruction at EIP returns to step(): "Halt" for HLT, "Breakpoint"
\* for INT 3 in either encoding, "Interrupt" for INT n, "Continue" otherwise.
ResultAtEip ==
    LET at(i) == raw(memory)[usize(cpu.eip) + i]
    IN CASE at(0) = 244 -> "Halt"
         [] at(0) = 204 -> "Breakpoint"
         [] at(0) = 205 -> IF at(1) = 3 THEN "Breakpoint" ELSE "Interrupt"
         [] OTHER -> "Continue"

C22_StepBackFrame ==
    [][(pc = "idle" /\ pc' = "idle" /\ ret'.op = "step_back")
         => /\ UNCHANGED <<memory, patch_history, breakpoints, max_instructions,
                           instructions_executed, total_instructions,
                           initial_cpu, initial_memory>>
            /\ IF history # <<>>
               THEN history' = Front(history) /\ state' = Ready
               ELSE UNCHANGED <<cpu, state, history>>]_vars

\* The ADD that wrote 2 to the byte at 1 has been stepped back over: EIP is
\* back on it, the byte keeps the sum, and a patch is still on the undo stack.
C22_Witness ==
    /\ ret.op = "step_back"
    /\ ret.entry # <<>>
    /\ cpu.eip = Word(1)
    /\ raw(memory)[1] = 2
    /\ total_instructions = 2
    /\ patch_history.undo_stack # <<>>
    /\ breakpoints # {}

\* C23: a shift by a masked count of 1 leaves OF = (top bit of the result) XOR
\* (the bit shifted out) for SHL, the top bit of the original operand for SHR
\* and false for SAR; a shift by a masked count of 0 changes neither the
\* operand nor any flag.
C23_ShiftOverflow ==
    [][\A code \in {<<211, 224>>, <<211, 232>>, <<211, 248>>} :
          Executes(code) =>
              CASE cpu.regs.ecx.lo % 32 = 1 ->
                     cpu'.eflags.of =
                         CASE code[2] = 224 ->
                                Bit(cpu'.regs.eax, 31) # Bit(cpu.regs.eax, 31)
                           [] code[2] = 232 -> Bit(cpu.regs.eax, 31) = 1
                           [] OTHER -> FALSE
                [] cpu.regs.ecx.lo % 32 = 0 ->
                     cpu'.regs = cpu.regs /\ cpu'.eflags = cpu.eflags
                [] OTHER -> TRUE]_vars

\* the field of cpu.regs that the register number k of an opcode names
RegOf(k) == iced_to_register(Reg32[k + 1])

\* the dword at ESP of the CPU state c, in the raw memory buf
StackTop(buf, c) == from_le_bytes(RawSlice(buf, usize(c.regs.esp), 4))

\* The last call was the step() that executed the PUSH of the register number
\* j just before the instruction at EIP; shadow ends with the CPU state before
\* that PUSH.
Pushed(j) ==
    /\ ret.op = "step" /\ ret.res = "Ok"
    /\ shadow # <<>>
    /\ cpu.eip = wrapping_add(Last(shadow).eip, Word(1))
    /\ raw(memory)[usize(Last(shadow).eip)] = 80 + j

\* C24 as stated: PUSH r decrements ESP by 4 and stores the value r had
\* before the instruction, little-endian, at the new ESP; POP r' loads the
\* dword at ESP into r' and increments ESP by 4; PUSH r followed by POP r'
\* leaves ESP as before the PUSH and r' equal to the pushed value.
C24_PushPop ==
    [][\A k \in 0..7 :
          /\ Executes(<<80 + k>>)
                => /\ cpu'.regs.esp = wrapping_sub(cpu.regs.esp, Word(4))
                   /\ StackTop(raw(memory), cpu)' = cpu.regs[RegOf(k)]
          /\ Executes(<<88 + k>>)
                => /\ cpu'.regs.esp = wrapping_add(cpu.regs.esp, Word(4))
                   /\ cpu'.regs[RegOf(k)] = StackTop(raw(memory), cpu)
                   /\ \A j \in 0..7 :
                         Pushed(j) => /\ cpu'.regs.esp = Last(shadow).regs.esp
                                      /\ cpu'.regs[RegOf(k)] = Last(shadow).regs[RegOf(j)]]_vars

\* C24, amended: the same, except that POP ESP leaves ESP equal to the dword it
\* popped (the increment by 4 is overwritten by the load), so that after PUSH r;
\* POP ESP the stack pointer is the pushed value and not its original value.
C24_PushPopButPopEsp ==
    [][\A k \in 0..7 :
          /\ Executes(<<80 + k>>)
                => /\ cpu'.regs.esp = wrapping_sub(cpu.regs.esp, Word(4))
                   /\ StackTop(raw(memory), cpu)' = cpu.regs[RegOf(k)]
          /\ Executes(<<88 + k>>)
                => /\ RegOf(k) # "esp" => cpu'.regs.esp = wrapping_add(cpu.regs.esp, Word(4))
                   /\ cpu'.regs[RegOf(k)] = StackTop(raw(memory), cpu)
                   /\ \A j \in 0..7 :
                         Pushed(j) => /\ RegOf(k) # "esp" => cpu'.regs.esp = Last(shadow).regs.esp
                                      /\ cpu'.regs[RegOf(k)] = Last(shadow).regs[RegOf(j)]]_vars

\* PUSH EAX; POP EBX has run with EAX = 0xDEADBEEF and ESP = 12: EBX holds the
\* value, ESP is 12 again and the bytes EF BE AD DE lie at 8.
C24_Witness ==
    /\ total_instructions = 2
    /\ RawSlice(raw(memory), 0, 2) = <<80, 91>>
    /\ cpu.regs.ebx = W(57005, 48879)
    /\ cpu.regs.esp = Word(12)
    /\ RawSlice(raw(memory), 8, 4) = <<239, 190, 173, 222>>

\* The last call was the step() that executed a CALL rel32 just before the
\* instruction at EIP; shadow ends with the CPU state before that CALL.
Called ==
    /\ ret.op = "step" /\ ret.res = "Ok"
    /\ shadow # <<>>
    /\ raw(memory)[usize(Last(shadow).eip)] = 232
    /\ cpu.regs.esp = wrapping_sub(Last(shadow).regs.esp, Word(4))
    /\ StackTop(raw(memory), cpu) = wrapping_add(Last(shadow).eip, Word(5))

\* C25: CALL rel32 stores the address of the instruction after it at ESP-4,
\* sets ESP to ESP-4 and continues at its target; RET continues at the dword
\* at ESP and adds 4 to ESP, RET imm16 adds the immediate as well; a plain RET
\* executed right after a CALL resumes after the CALL with the ESP from before
\* the CALL.
C25_CallRet ==
    [][/\ \A rel \in {<<250, 255, 255, 255>>, <<248, 255, 255, 255>>} :
            Executes(<<232>> \o rel)
              => /\ cpu'.regs.esp = wrapping_sub(cpu.regs.esp, Word(4))
                 /\ StackTop(raw(memory), cpu)' = wrapping_add(cpu.eip, Word(5))
                 /\ cpu'.eip = wrapping_add(wrapping_add(cpu.eip, Word(5)), from_le_bytes(rel))
                 /\ cpu'.eip = Word(0)
       /\ Executes(<<195>>)
              => /\ cpu'.eip = StackTop(raw(memory), cpu)
                 /\ cpu'.regs.esp = wrapping_add(cpu.regs.esp, Word(4))
                 /\ Called => /\ cpu'.eip = wrapping_add(Last(shadow).eip, Word(5))
                               /\ cpu'.regs.esp = Last(shadow).regs.esp
       /\ Executes(<<194, 4, 0>>)
              => /\ cpu'.eip = StackTop(raw(memory), cpu)
                 /\ cpu'.regs.esp = wrapping_add(cpu.regs.esp, Word(8))
       /\ (Executes(<<232>>) \/ Executes(<<195>>) \/ Executes(<<194>>))
              => /\ cpu'.eflags = cpu.eflags
                 /\ \A r \in DOMAIN cpu.regs \ {"esp"} : cpu'.regs[r] = cpu.regs[r]]_vars

\* The CALL at 1 with ESP = 12 and the RET at 0 have run: EIP is 6, the
\* address after the CALL, which still lies at 8, and ESP is 12 again.
C25_Witness ==
    /\ total_instructions = 2
    /\ raw(memory)[0] = 195
    /\ cpu.eip = Word(6)
    /\ cpu.regs.esp = Word(12)
    /\ RawSlice(raw(memory), 8, 4) = <<6, 0, 0, 0>>
    /\ ret.op = "step" /\ ret.res = "Ok"

\* The predicate on the flags f under which the Jcc of opcode op is taken:
\* 70 JO, 71 JNO, 72 JB, 73 JAE, 74 JE, 75 JNE, 76 JBE, 77 JA, 78 JS, 79 JNS,
\* 7C JL, 7D JGE, 7E JLE, 7F JG.
Predicate(op, f) ==
    CASE op = 112 -> f.of
      [] op = 113 -> ~f.of
      [] op = 114 -> f.cf
      [] op = 115 -> ~f.cf
      [] op = 116 -> f.zf
      [] op = 117 -> ~f.zf
      [] op = 118 -> f.cf \/ f.zf
      [] op = 119 -> ~f.cf /\ ~f.zf
      [] op = 120 -> f.sf
      [] op = 121 -> ~f.sf
      [] op = 124 -> f.sf # f.of
      [] op = 125 -> f.sf = f.of
      [] op = 126 -> f.zf \/ (f.sf # f.of)
      [] op = 127 -> ~f.zf /\ (f.sf = f.of)

\* The opcode of the complementary jump: JE/JNE, JG/JLE, JGE/JL, JA/JBE,
\* JAE/JB, JS/JNS, JO/JNO differ in the lowest bit.
Complement(op) == IF op % 2 = 0 THEN op + 1 ELSE op - 1

\* C26: a conditional jump continues at its target iff its predicate holds on
\* the flags before the jump, and at the next instruction otherwise; it changes
\* no flag and no register; and it is taken exactly when, on the same flags,
\* the predicate of the complementary jump does not hold.
C26_JccPredicates ==
    [][\A op \in (112..127) \ {122, 123}, d \in {1, 254} :
          Executes(<<op, d>>)
            => /\ cpu'.eip = IF Predicate(op, cpu.eflags)
                             THEN wrapping_add(wrapping_add(cpu.eip, Word(2)), Sext8(d))
                             ELSE wrapping_add(cpu.eip, Word(2))
               /\ cpu'.eflags = cpu.eflags
               /\ cpu'.regs = cpu.regs
               /\ Predicate(op, cpu.eflags) # Predicate(Complement(op), cpu.eflags)]_vars

\* JG +1 at 0 was not taken with ZF clear and SF # OF: EIP is 2.
C26_Witness ==
    /\ total_instructions = 1
    /\ RawSlice(raw(memory), 0, 2) = <<127, 1>>
    /\ ~cpu.eflags.zf /\ cpu.eflags.sf /\ ~cpu.eflags.of
    /\ cpu.eip = Word(2)

\* Pairwise coprime moduli whose product exceeds 2^65: two integers that
\* differ by less than 2^64 are equal iff they agree modulo each of them.
Moduli == {32768, 32767, 32765, 32763, 32761}

\* the u32 x modulo m, and the 64-bit P = P.hi * 2^32 + P.lo modulo m
Res32(x, m) == ((x.hi % m) * 65536 + x.lo) % m
Res64(P, m) == (((Res32(P.hi, m) * 65536 + P.lo.hi) % m) * 65536 + P.lo.lo) % m

\* 2^32 modulo m
Two32(m) == ((65536 % m) * (65536 % m)) % m

\* the same for x as i32 and P as i64: 2^32, resp. 2^64, less when the top bit is set
SRes32(x, m) == (Res32(x, m) + m - (IF Neg32(x) THEN Two32(m) ELSE 0)) % m
SRes64(P, m) ==
    (Res64(P, m) + m - (IF Neg32(P.hi) THEN (Two32(m) * Two32(m)) % m ELSE 0)) % m

\* The 64-bit P is the product of the 32-bit a and b, all three read as signed
\* or all three as unsigned integers.
IsProduct(P, a, b, signed) ==
    \A m \in Moduli :
        IF signed THEN SRes64(P, m) = (SRes32(a, m) * SRes32(b, m)) % m
        ELSE Res64(P, m) = (Res32(a, m) * Res32(b, m)) % m

\* the i32 d as an i64
SignExt(d) == [hi |-> IF Neg32(d) THEN W(2^16 - 1, 2^16 - 1) ELSE Word(0), lo |-> d]

\* p * q for 16-bit p and q, as two 16-bit halves
Mul16(p, q) ==
    LET s == (p % 256) * q + (((p \div 256) * q) % 256) * 256
    IN [hi |-> s \div 65536 + ((p \div 256) * q) \div 256, lo |-> s % 65536]

\* a * b modulo 2^32
Low32(a, b) ==
    W((Mul16(a.lo, b.lo).hi + Mul16(a.hi, b.lo).lo + Mul16(a.lo, b.hi).lo) % 65536,
      Mul16(a.lo, b.lo).lo)

\* The flags f have CF = OF = v.
BothAre(f, v) == f.cf = v /\ f.of = v

\* C27: MUL r/m32 and IMUL r/m32 leave in EDX:EAX the full unsigned, resp.
\* signed, product of EAX and the operand; IMUL r32, r/m32 and IMUL r32, r/m32,
\* imm leave the low 32 bits of the product in r32; after each CF = OF, set
\* after MUL iff EDX is not 0 and after IMUL iff the signed product is not the
\* value of an i32.
C27_Products ==
    [][LET a == cpu.regs.eax
           b == cpu.regs.ecx
           P == [hi |-> cpu'.regs.edx, lo |-> cpu'.regs.eax]
       IN /\ Executes(<<247, 225>>)
                => IsProduct(P, a, b, FALSE) /\ BothAre(cpu'.eflags, P.hi # Word(0))
          /\ Executes(<<247, 33>>)
                => /\ IsProduct(P, a, from_le_bytes(RawSlice(raw(memory), usize(b), 4)), FALSE)
                   /\ BothAre(cpu'.eflags, P.hi # Word(0))
          /\ Executes(<<247, 233>>)
                => IsProduct(P, a, b, TRUE) /\ BothAre(cpu'.eflags, P # SignExt(P.lo))
          /\ Executes(<<15, 175, 193>>)
                => /\ P.lo = Low32(a, b)
                   /\ BothAre(cpu'.eflags, ~IsProduct(SignExt(P.lo), a, b, TRUE))
          /\ Executes(<<107, 193, 255>>)
                => /\ P.lo = Low32(b, W(2^16 - 1, 2^16 - 1))
                   /\ BothAre(cpu'.eflags,
                              ~IsProduct(SignExt(P.lo), b, W(2^16 - 1, 2^16 - 1), TRUE))
          /\ Executes(<<105, 193, 0, 0, 1, 0>>)
                => /\ P.lo = Low32(b, W(1, 0))
                   /\ BothAre(cpu'.eflags, ~IsProduct(SignExt(P.lo), b, W(1, 0), TRUE))]_vars

\* IMUL ECX has run with EAX = 0x80000000 and ECX = 0xFFFFFFFF: EDX:EAX is
\* 2^31, which is no i32, and CF and OF are set.
C27_Witness ==
    /\ total_instructions = 1
    /\ RawSlice(raw(memory), 0, 2) = <<247, 233>>
    /\ cpu.regs.ecx = W(2^16 - 1, 2^16 - 1)
    /\ cpu.regs.edx = Word(0)
    /\ cpu.regs.eax = W(2^15, 0)
    /\ cpu.eflags.cf /\ cpu.eflags.of

\* What the executor returns at EIP for the instruction of the bytes `code`
\* (a SUB or an AND) in place of the one that is there.
Instead(code) ==
    LET window == code \o [i \in 1..(15 - Len(code)) |-> 0]
        instr == Decode(window, cpu.eip)
        next_eip == wrapping_add(cpu.eip, Word(instr.len))
    IN IF instr.mnemonic = "Sub" THEN exec_sub(cpu, memory, instr, next_eip)
       ELSE exec_logic(cpu, memory, instr, next_eip)

\* C28: CMP and TEST, on registers or on a dword in memory, change no
\* general-purpose register and no memory byte, move EIP to the next
\* instruction, and leave the flags that SUB, resp. AND, with the same ModRM
\* byte leaves in the same state.
C28_CmpTestFrame ==
    [][\A modrm \in {200, 1} :
          /\ Executes(<<57, modrm>>)
                => /\ cpu'.eflags = Instead(<<41, modrm>>).cpu.eflags
                   /\ cpu'.regs = cpu.regs /\ memory' = memory
                   /\ cpu'.eip = wrapping_add(cpu.eip, Word(2))
          /\ Executes(<<133, modrm>>)
                => /\ cpu'.eflags = Instead(<<33, modrm>>).cpu.eflags
                   /\ cpu'.regs = cpu.regs /\ memory' = memory
                   /\ cpu'.eip = wrapping_add(cpu.eip, Word(2))]_vars

\* CMP [ECX], EAX has run with ECX = 1 and EAX = 5: the dword at 1 is as
\* loaded (01 F4 00 00), EAX is 5, and the flags are those of 0xF401 - 5.
C28_Witness ==
    /\ total_instructions = 1
    /\ RawSlice(raw(memory), 0, 5) = <<57, 1, 244, 0, 0>>
    /\ cpu.regs.ecx = Word(1)
    /\ cpu.regs.eax = Word(5)
    /\ cpu.eip = Word(2)
    /\ ~cpu.eflags.zf /\ ~cpu.eflags.cf /\ ~cpu.eflags.sf /\ cpu.eflags.pf

(***************************************************************************)
(* C29: load and the two checks of a checked write                         *)
(***************************************************************************)
\* The last call was load_code or load_data.
Loaded == ret.op \in {"load_code", "load_data"}

\* The first region containing the address of the last call denies writing
\* and enforcement is on: write_bytes there returns AccessViolation.
WriteDenied ==
    /\ memory.enforce_permissions
    /\ get_region(memory, ret.addr) # 0
    /\ ~memory.regions[get_region(memory, ret.addr)].permissions.write

\* C29 as stated: load performs neither check of a checked write: it never
\* fails with the out-of-bounds error and never with the access-violation
\* error, whatever the address, data length, regions and enforcement setting.
C29_LoadUnchecked ==
    Loaded => ret.res \notin {"OutOfBounds", "AccessViolation"}

\* C29 as amended: load performs the bounds check and skips only the
\* permission check: it fails with the out-of-bounds error exactly when
\* address + data length exceeds the memory size, and then leaves memory as
\* it was; it never fails with the access-violation error, whatever the
\* regions and the enforcement setting; within bounds it succeeds and stores
\* the data, changing no other byte.
C29_LoadBoundsOnly ==
    Loaded =>
        /\ ret.res # "AccessViolation"
        /\ ret.res = (IF ret.addr + Len(ret.bytes) > size(memory) THEN "OutOfBounds" ELSE "Ok")
        /\ ret.res # "Ok" => raw(memory) = ret.pre
        /\ ret.res = "Ok" =>
              \A i \in DOMAIN ret.pre :
                  raw(memory)[i] = IF i >= ret.addr /\ i < ret.addr + Len(ret.bytes)
                                   THEN ret.bytes[i - ret.addr + 1] ELSE ret.pre[i]

\* A load succeeded and changed a byte at an address where a checked write is
\* refused for want of the write permission.
C29_Witness ==
    /\ Loaded
    /\ ret.res = "Ok"
    /\ WriteDenied
    /\ raw(memory) # ret.pre
    /\ write_bytes(memory, ret.addr, ret.bytes).res = "AccessViolation"

(***************************************************************************)
(* C30: the execution trace is a bounded ring of pre-step snapshots        *)
(***************************************************************************)
\* The trace holds at most max_history entries, each with the EIP of its own
\* snapshot, and its snapshots are the latest Len(history) of the pre-step
\* CPU states of the successful steps not stepped back (shadow), in order.
TraceIsLatest ==
    /\ Len(history) <= max_history
    /\ Len(history) <= Len(shadow)
    /\ \A i \in 1..Len(history) :
          /\ history[i].eip = history[i].cpu_snapshot.eip
          /\ history[i].cpu_snapshot = shadow[Len(shadow) - Len(history) + i]

\* C30: in every reachable state the trace holds at most max_history entries,
\* each entry's eip is the EIP of its own CPU snapshot, and the trace consists
\* of the most recent pre-step snapshots in execution order; a successful
\* step() appends the snapshot of the CPU before the step, and on a full trace
\* it evicts the oldest entry to do so.
C30_TraceRing ==
    [][/\ TraceIsLatest'
       /\ total_instructions' = total_instructions + 1 =>
             /\ history' # <<>>
             /\ Last(history').cpu_snapshot = cpu
             /\ Last(history').eip = cpu.eip
             /\ Front(history') = IF Len(history) = max_history
                                  THEN Tail(history) ELSE history]_vars

\* A step succeeded on a full trace: the trace is still full, the oldest
\* pre-step state is no longer in it and the entry after it is now the first.
C30_Witness ==
    /\ ret.op = "step" /\ ret.res = "Ok"
    /\ Len(history) = max_history
    /\ Len(shadow) = max_history + 1
    /\ history[1].cpu_snapshot = shadow[2]
    /\ history[1].cpu_snapshot # shadow[1]
    /\ Last(history).cpu_snapshot = Last(shadow)

(***************************************************************************)
(* C31: the patch log is bounded                                           *)
(***************************************************************************)
\* undo_count <= max_history and undo_count + redo_count <= max_history
LogBounded ==
    /\ Len(patch_history.undo_stack) <= patch_max_history
    /\ Len(patch_history.undo_stack) + Len(patch_history.redo_stack) <= patch_max_history

\* C31: in every reachable state of the patch log undo_count <= max_history
\* and undo_count + redo_count <= max_history; a successful patch() records
\* its patch last on the undo stack, and on a full undo stack it evicts the
\* oldest patch and keeps the most recent max_history ones.
C31_PatchLogBounded ==
    [][/\ LogBounded'
       /\ (calls' = calls + 1 /\ ret'.op = "patch" /\ ret'.res = "Ok") =>
             /\ Last(patch_history'.undo_stack) =
                    MemoryPatch(ret'.addr,
                                RawSlice(raw(memory), ret'.addr, Len(ret'.bytes)),
                                ret'.bytes)
             /\ Front(patch_history'.undo_stack) =
                    IF Len(patch_history.undo_stack) = patch_max_history
                    THEN Tail(patch_history.undo_stack)
                    ELSE patch_history.undo_stack]_vars

\* The third successful patch in a row at one address: the undo stack is full
\* and its oldest entry is the second patch, which recorded the first one's
\* byte as the old byte.
C31_Witness ==
    /\ ret.op = "patch" /\ ret.res = "Ok" /\ prev.op = "patch" /\ prev.res = "Ok"
    /\ calls = patch_max_history + 1
    /\ Len(patch_history.undo_stack) = patch_max_history
    /\ patch_history.redo_stack = <<>>
    /\ patch_history.undo_stack[1].address = ret.addr
    /\ patch_history.undo_stack[1].old_bytes[1] # 0

(***************************************************************************)
(* C32: k patches, k undos, k redos                                        *)
(***************************************************************************)
\* k patches within the undo capacity were followed by k undo_patch() calls.
Unwound ==
    /\ prev.streak.k \in 1..patch_max_history
    /\ prev.streak.j = prev.streak.k
    /\ prev.streak.i = 0

\* ... and those by k redo_patch() calls.
Rewound ==
    /\ prev.streak.k \in 1..patch_max_history
    /\ prev.streak.i = prev.streak.k

C33_FailedPatchNoEffect ==
    [][(calls' = calls + 1 /\ ret'.op = "patch" /\ ret'.res # "Ok") =>
          /\ memory' = memory
          /\ patch_history' = patch_history]_vars

\* A patch was refused at its read by a region without read permission
\* while a patch was waiting on the redo stack.
C33_Witness ==
    /\ ret.op = "patch" /\ ret.res = "AccessViolation"
    /\ check_read(memory, ret.addr) = "AccessViolation"
    /\ patch_history.redo_stack # <<>>
    /\ prev.op = "undo_patch" /\ prev.res = "Ok"

(***************************************************************************)
(* C34: a failed step                                                      *)
(***************************************************************************)
\* The call that completes is a step() that failed with an error of the
\* memory or of the executor.
StepFails ==
    /\ pc = "idle" /\ pc' = "idle"
    /\ ret'.op = "step"
    /\ ret'.res \notin {"Ok", "AlreadyHalted", "Panic"}

\* C34: a step() that fails with a memory or executor error is atomic: the
\* general-purpose registers (ESP among them), EIP, the flags and every
\* memory byte are after the failed call what they were before it.
C34_FailedStepAtomic ==
    [][StepFails =>
          /\ cpu'.regs = cpu.regs
          /\ cpu'.eip = cpu.eip
          /\ cpu'.eflags = cpu.eflags
          /\ raw(memory') = raw(memory)]_vars

Completes(op) == pc = "idle" /\ pc' = "idle" /\ ret'.op = op

\* C36: a successful step() adds exactly 1 to instructions_executed and to
\* total_instructions, a failed step() changes neither; total_instructions is
\* at least instructions_executed in every state and never decreases: run(),
\* run_n() and reset() zero the per-run counter only, step_back() changes
\* neither counter.
C36_Counters ==
    [][/\ total_instructions' >= instructions_executed'
       /\ total_instructions' >= total_instructions
       /\ Completes("step") =>
             IF ret'.res = "Ok"
             THEN /\ instructions_executed' = instructions_executed + 1
                  /\ total_instructions' = total_instructions + 1
             ELSE /\ instructions_executed' = instructions_executed
                  /\ total_instructions' = total_instructions
       /\ (pc = "idle" /\ pc' = "run") =>
             instructions_executed' = 0 /\ total_instructions' = total_instructions
       /\ Completes("reset") =>
             instructions_executed' = 0 /\ total_instructions' = total_instructions
       /\ Completes("step_back") =>
             /\ instructions_executed' = instructions_executed
             /\ total_instructions' = total_instructions]_vars

\* A step was taken back after a run that followed other instructions: the
\* lifetime counter is ahead of the per-run counter, and neither is zero.
C36_Witness ==
    /\ pc = "idle"
    /\ ret.op = "step_back" /\ ret.entry # <<>>
    /\ instructions_executed > 0
    /\ total_instructions > instructions_executed

C38_SearchFailures ==
    ret.op = "search_bytes" =>
        /\ ret.res \in {"Ok", "InvalidInput", "OutOfBounds"}
        /\ ret.res = "InvalidInput" <=> (ret.bytes = <<>> \/ ret.addr >= ret.count)
        /\ (/\ ret.bytes # <<>>
            /\ ret.addr < ret.count
            /\ ret.count <= size(memory)
            /\ Len(ret.bytes) > ret.count - ret.addr)
           => ret.res = "Ok" /\ ret.entry = <<>>

(***************************************************************************)
(* C39: replay                                                             *)
(***************************************************************************)
\* A run() has returned that was called right after a reset(), and no
\* load_code, load_data, set_entry_point or set_stack_pointer call came after
\* the last save_initial_state().
Replayed ==
    /\ pc = "idle"
    /\ ret.op = "run" /\ prev.op = "reset"
    /\ saved.some /\ ~saved.touched

\* The debugger as it was at the last save_initial_state(), with the
\* breakpoints and the ceiling of now.
AtSave == [Dbg EXCEPT !.cpu = saved.cpu, !.memory = [memory EXCEPT !.data = saved.memory]]

C40_HaltedRefusesRun ==
    [][(pc = "run" /\ run_frame.halted) =>
          /\ pc' = "idle"
          /\ ret'.res = "AlreadyHalted"
          /\ cpu' = cpu
          /\ memory' = memory
          /\ history' = history
          /\ total_instructions' = total_instructions]_vars

====
